---- MODULE Spec2Model ----
(***************************************************************************)
(* A model of primrose-mcp-snowflake: the Worker's fetch handler, the      *)
(* per-request SnowflakeClientImpl, its request() transport and the        *)
(* statement operations, with the remote SQL API as the environment.       *)
(*                                                                         *)
(* Values.  Opaque strings (account, token, handle, identifiers) are TLA+  *)
(* strings; JavaScript's undefined and null are the strings `undefined`    *)
(* and `null` below.  A text whose characters the code inspects (a         *)
(* message, a Retry-After header, String(n)) is a sequence of              *)
(* one-character strings, and an absent text is `undefinedText`.           *)
(***************************************************************************)
EXTENDS Integers, Sequences, FiniteSets, TLC

\* ------------------------------------------------------------------ bounds
\* Concurrent inbound calls of the multi-tenant specification.
NumCalls == 2
\* Partitions of the multi-partition result fixture.
NumPartitions == 3
\* Rows in each partition of the fixture.
RowsPerPartition == 2
\* Longest data (rows) of a list command's result.
MaxRows == 2
\* Most columns of a rowType.
MaxColumns == 2
\* Most cells of a row.
MaxCells == 2

\* --------------------------------------------------------------- JS values
undefined == "<undefined>"
null == "<null>"
undefinedText == <<"<undefined>">>
\* An absent `data` (rows of cells): no result table is this one.
undefinedData == << << <<"<undefined>">> >> >>

\* A cell that is JSON null (an SQL NULL).
nullText == <<"<null>">>
\* An absent resultSetMetaData, and an absent or present partitionInfo.
undefinedMeta == [tag |-> "undefined"]
undefinedPartitionInfo == [tag |-> "undefined"]
PartitionInfo(partitions) == [tag |-> "array", value |-> partitions]

\* JavaScript truthiness of an optional string: undefined, null and '' are falsy.
Truthy(s) == s # undefined /\ s # null /\ s # ""
\* The same for an optional text.
TruthyText(t) == t # undefinedText /\ t # <<>>
\* a || b on optional strings.
Or(a, b) == IF Truthy(a) THEN a ELSE b

UpperChars == <<"A","B","C","D","E","F","G","H","I","J","K","L","M",
                "N","O","P","Q","R","S","T","U","V","W","X","Y","Z">>
LowerChars == <<"a","b","c","d","e","f","g","h","i","j","k","l","m",
                "n","o","p","q","r","s","t","u","v","w","x","y","z">>
DigitChars == <<"0","1","2","3","4","5","6","7","8","9">>

toLowerCaseChar(ch) ==
  IF \E i \in 1..26 : UpperChars[i] = ch
  THEN LowerChars[CHOOSE i \in 1..26 : UpperChars[i] = ch]
  ELSE ch

\* String.prototype.toLowerCase
toLowerCase(t) == [i \in 1..Len(t) |-> toLowerCaseChar(t[i])]

\* String.prototype.includes
includes(t, sub) ==
  \E i \in 0..(Len(t) - Len(sub)) : SubSeq(t, i + 1, i + Len(sub)) = sub

IsDigit(ch) == \E i \in 1..10 : DigitChars[i] = ch
DigitValue(ch) == (CHOOSE i \in 1..10 : DigitChars[i] = ch) - 1
IsSpace(ch) == ch = " "

RECURSIVE SkipSpaces(_)
SkipSpaces(t) ==
  IF t # <<>> /\ IsSpace(Head(t)) THEN SkipSpaces(Tail(t)) ELSE t

RECURSIVE DigitPrefix(_)
DigitPrefix(t) ==
  IF t # <<>> /\ IsDigit(Head(t)) THEN <<Head(t)>> \o DigitPrefix(Tail(t)) ELSE <<>>

RECURSIVE DigitsValue(_)
DigitsValue(ds) ==
  IF ds = <<>> THEN 0
  ELSE 10 * DigitsValue(SubSeq(ds, 1, Len(ds) - 1)) + DigitValue(ds[Len(ds)])

\* A JavaScript number: a number, NaN, or (for an optional one) undefined.
NaN == [tag |-> "NaN"]
undefinedNum == [tag |-> "undefined"]
Num(n) == [tag |-> "number", value |-> n]
\* A JavaScript boolean, or (for an optional one) undefined.
Bool(b) == [tag |-> "boolean", value |-> b]
undefinedBool == [tag |-> "undefined"]
\* JavaScript truthiness of an optional number: undefined, NaN and 0 are falsy.
TruthyNum(x) == x.tag = "number" /\ x.value # 0

\* parseInt(text, 10): leading white space is skipped, an optional sign is
\* read, then the longest run of decimal digits; NaN when there is none.
parseInt(t) ==
  LET s == SkipSpaces(t)
      neg == s # <<>> /\ Head(s) = "-"
      body == IF s # <<>> /\ (Head(s) = "-" \/ Head(s) = "+") THEN Tail(s) ELSE s
      ds == DigitPrefix(body)
  IN IF ds = <<>> THEN NaN
     ELSE Num(IF neg THEN 0 - DigitsValue(ds) ELSE DigitsValue(ds))

\* String(n) for a non-negative integer n: its decimal digits.
RECURSIVE String(_)
String(n) ==
  IF n < 10 THEN <<DigitChars[n + 1]>>
  ELSE String(n \div 10) \o <<DigitChars[(n % 10) + 1]>>

\* The column names the mappers look up, as texts.
Key ==
  [
    name |-> <<"n","a","m","e">>,
    created_on |-> <<"c","r","e","a","t","e","d","_","o","n">>,
    origin |-> <<"o","r","i","g","i","n">>,
    owner |-> <<"o","w","n","e","r">>,
    comment |-> <<"c","o","m","m","e","n","t">>,
    options |-> <<"o","p","t","i","o","n","s">>,
    retention_time |-> <<"r","e","t","e","n","t","i","o","n","_","t","i","m","e">>,
    resource_group |-> <<"r","e","s","o","u","r","c","e","_","g","r","o","u","p">>,
    kind |-> <<"k","i","n","d">>,
    cluster_by |-> <<"c","l","u","s","t","e","r","_","b","y">>,
    rows |-> <<"r","o","w","s">>,
    bytes |-> <<"b","y","t","e","s">>,
    automatic_clustering |->
      <<"a","u","t","o","m","a","t","i","c","_","c","l","u","s","t","e","r","i","n","g">>,
    change_tracking |-> <<"c","h","a","n","g","e","_","t","r","a","c","k","i","n","g">>,
    is_external |-> <<"i","s","_","e","x","t","e","r","n","a","l">>,
    text |-> <<"t","e","x","t">>,
    is_secure |-> <<"i","s","_","s","e","c","u","r","e">>,
    is_materialized |-> <<"i","s","_","m","a","t","e","r","i","a","l","i","z","e","d">>,
    type |-> <<"t","y","p","e">>,
    null |-> <<"n","u","l","l">>,
    default |-> <<"d","e","f","a","u","l","t">>,
    primary_key |-> <<"p","r","i","m","a","r","y","_","k","e","y">>,
    unique_key |-> <<"u","n","i","q","u","e","_","k","e","y">>,
    check |-> <<"c","h","e","c","k">>,
    expression |-> <<"e","x","p","r","e","s","s","i","o","n">>,
    policy_name |-> <<"p","o","l","i","c","y","_","n","a","m","e">>,
    state |-> <<"s","t","a","t","e">>,
    size |-> <<"s","i","z","e">>,
    min_cluster_count |-> <<"m","i","n","_","c","l","u","s","t","e","r","_","c","o","u","n","t">>,
    max_cluster_count |-> <<"m","a","x","_","c","l","u","s","t","e","r","_","c","o","u","n","t">>,
    started_clusters |-> <<"s","t","a","r","t","e","d","_","c","l","u","s","t","e","r","s">>,
    running |-> <<"r","u","n","n","i","n","g">>,
    queued |-> <<"q","u","e","u","e","d">>,
    is_default |-> <<"i","s","_","d","e","f","a","u","l","t">>,
    is_current |-> <<"i","s","_","c","u","r","r","e","n","t">>,
    auto_suspend |-> <<"a","u","t","o","_","s","u","s","p","e","n","d">>,
    auto_resume |-> <<"a","u","t","o","_","r","e","s","u","m","e">>,
    available |-> <<"a","v","a","i","l","a","b","l","e">>,
    provisioning |-> <<"p","r","o","v","i","s","i","o","n","i","n","g">>,
    quiescing |-> <<"q","u","i","e","s","c","i","n","g">>,
    other |-> <<"o","t","h","e","r">>,
    resumed_on |-> <<"r","e","s","u","m","e","d","_","o","n">>,
    updated_on |-> <<"u","p","d","a","t","e","d","_","o","n">>,
    resource_monitor |-> <<"r","e","s","o","u","r","c","e","_","m","o","n","i","t","o","r">>,
    scaling_policy |-> <<"s","c","a","l","i","n","g","_","p","o","l","i","c","y">> ]

\* The texts the mappers compare with or default to ('y', 'true',
\* 'SUSPENDED'), and the messages, cells and column names the inputs below are
\* made of.
Txt ==
  [
    SUSPENDED |-> <<"S","U","S","P","E","N","D","E","D">>,
    y |-> <<"y">>,
    true |-> <<"t","r","u","e">>,
    ExecutedSuccessfully |->
      <<"S","t","a","t","e","m","e","n","t"," ","e","x","e","c","u","t","e","d"," ", "s","u","c","c","e","s","s","f","u","l","l","y",".">>,
    InProgress |->
      <<"A","s","y","n","c","h","r","o","n","o","u","s"," ","e","x","e","c","u","t","i","o","n", " ","i","n"," ","p","r","o","g","r","e","s","s",".">>,
    SUCCESS |-> <<"S","U","C","C","E","S","S">>,
    Success |-> <<"S","u","c","c","e","s","s">>,
    succes |-> <<"s","u","c","c","e","s">>,
    QueryFailed |-> <<"Q","u","e","r","y"," ","F","a","i","l","e","d">>,
    failed |-> <<"f","a","i","l","e","d">>,
    fail |-> <<"f","a","i","l">>,
    ERROR |-> <<"E","R","R","O","R">>,
    SqlError |-> <<"S","Q","L"," ","e","r","r","o","r",":"," ","x">>,
    err |-> <<"e","r","r">>,
    Unsuccessful |->
      <<"U","n","s","u","c","c","e","s","s","f","u","l",":"," ","f","a","i","l","e","d">>,
    Queued |-> <<"Q","u","e","u","e","d">>,
    HttpDate |-> <<"W","e","d",","," ","2","1"," ","O","c","t"," ","2","0","1","5">>,
    Compilation |->
      <<"S","Q","L"," ","c","o","m","p","i","l","a","t","i","o","n"," ","e","r","r","o","r">>,
    Cancelled |->
      <<"S","t","a","t","e","m","e","n","t"," ","c","a","n","c","e","l","l","e","d",".">>,
    WH_XS |-> <<"W","H","_","X","S">>,
    WH_L |-> <<"W","H","_","L">>,
    STARTED |-> <<"S","T","A","R","T","E","D">>,
    NAME |-> <<"N","A","M","E">>,
    Name |-> <<"N","a","m","e">>,
    abc |-> <<"a","b","c">>,
    Y |-> <<"Y">> ]

\* ------------------------------------------------------------ status mapping
\* SnowflakeClientImpl.mapStatus with the spec's precedence (status URL first).
mapStatus_urlFirst(statusUrl, message) ==
  IF Truthy(statusUrl) THEN "running"
  ELSE IF message # undefinedText
          /\ (includes(toLowerCase(message), <<"f","a","i","l","e","d">>)
              \/ includes(toLowerCase(message), <<"e","r","r","o","r">>))
       THEN "failed_with_error"
       ELSE "success"

\* SnowflakeClientImpl.mapStatus without its final return: falling off the
\* end of the function gives undefined.
mapStatus_noFinalReturn(statusUrl, message) ==
  IF (message # undefinedText
      /\ includes(toLowerCase(message), <<"s","u","c","c","e","s","s">>))
     \/ (~Truthy(statusUrl) /\ ~TruthyText(message))
  THEN "success"
  ELSE IF Truthy(statusUrl) THEN "running"
  ELSE IF message # undefinedText
          /\ (includes(toLowerCase(message), <<"f","a","i","l","e","d">>)
              \/ includes(toLowerCase(message), <<"e","r","r","o","r">>))
       THEN "failed_with_error"
       ELSE undefined

\* SnowflakeClientImpl.mapStatus
mapStatus(statusUrl, message) ==
  IF (message # undefinedText
      /\ includes(toLowerCase(message), <<"s","u","c","c","e","s","s">>))
     \/ (~Truthy(statusUrl) /\ ~TruthyText(message))
  THEN "success"
  ELSE IF Truthy(statusUrl) THEN "running"
  ELSE IF message # undefinedText
          /\ (includes(toLowerCase(message), <<"f","a","i","l","e","d">>)
              \/ includes(toLowerCase(message), <<"e","r","r","o","r">>))
       THEN "failed_with_error"
       ELSE "success"

\* mapStatementResponse interpreting the cells of data: a cell that starts
\* with a number becomes that number, rendered again ("07" becomes "7").
mapStatementResponse_parsedCells(response) ==
  [ statementHandle |-> response.statementHandle,
    status |-> mapStatus(response.statementStatusUrl, response.message),
    resultSetMetaData |-> response.resultSetMetaData,
    data |->
      IF response.data = undefinedData THEN undefinedData
      ELSE [ r \in 1..Len(response.data) |->
               [ i \in 1..Len(response.data[r]) |->
                   LET cell == response.data[r][i]
                   IN IF cell = nullText \/ parseInt(cell) = NaN THEN cell
                      ELSE String(parseInt(cell).value) ] ],
    stats |-> response.stats,
    statementStatusUrl |-> response.statementStatusUrl,
    message |-> response.message,
    sqlState |-> response.sqlState,
    code |-> response.code ]

\* SnowflakeClientImpl.mapStatementResponse (of a column the name and type
\* are kept).
mapStatementResponse(response) ==
  [ statementHandle |-> response.statementHandle,
    status |-> mapStatus(response.statementStatusUrl, response.message),
    resultSetMetaData |->
      IF response.resultSetMetaData # undefinedMeta
      THEN [ numRows |-> response.resultSetMetaData.numRows,
             partitionInfo |-> response.resultSetMetaData.partitionInfo,
             rowType |-> [ i \in 1..Len(response.resultSetMetaData.rowType) |->
                             LET col == response.resultSetMetaData.rowType[i]
                             IN [name |-> col.name, type |-> col.type] ] ]
      ELSE undefinedMeta,
    data |-> response.data,
    stats |-> response.stats,
    statementStatusUrl |-> response.statementStatusUrl,
    message |-> response.message,
    sqlState |-> response.sqlState,
    code |-> response.code ]

\* ------------------------------------------------------------ entity mapping
\* JavaScript truthiness of a cell: undefined, null and '' are falsy.
TruthyCell(cell) == cell # undefinedText /\ cell # nullText /\ cell # <<>>

\* row[index] giving the row's last cell for an index past its end.
At_clamped(row, index) ==
  IF index >= 0 /\ Len(row) > 0
  THEN row[IF index < Len(row) THEN index + 1 ELSE Len(row)]
  ELSE undefinedText

\* row[index]: undefined outside the row, so also for index -1.
At(row, index) ==
  IF index >= 0 /\ index < Len(row) THEN row[index + 1] ELSE undefinedText

\* columnMap.key ?? fallback preferring the fallback position when there is one.
Lookup_positionFirst(columnMap, key, fallback) ==
  IF fallback >= 0 THEN fallback
  ELSE IF key \in DOMAIN columnMap THEN columnMap[key] ELSE fallback

\* columnMap.key ?? fallback
Lookup(columnMap, key, fallback) ==
  IF key \in DOMAIN columnMap THEN columnMap[key] ELSE fallback

\* row[columnMap.key ?? fallback]
Cell(row, columnMap, key, fallback) == At(row, Lookup(columnMap, key, fallback))

\* cell || default
OrText(cell, default) == IF TruthyCell(cell) THEN cell ELSE default

\* parseInt(cell, 10) without the test for an absent cell.
IntCell_alwaysParse(cell) == parseInt(cell)

\* cell ? parseInt(cell, 10) : undefined
IntCell(cell) == IF TruthyCell(cell) THEN parseInt(cell) ELSE undefinedNum

\* cell?.toLowerCase() === literal
EqualsLower(cell, literal) ==
  Bool(cell # undefinedText /\ cell # nullText /\ toLowerCase(cell) = literal)

\* map[key] = index
Assign(map, key, index) ==
  [k \in DOMAIN map \cup {key} |-> IF k = key THEN index ELSE map[k]]

\* buildColumnMap keeping each name's own casing.
RECURSIVE forEach_caseSensitive(_, _, _)
forEach_caseSensitive(map, rowType, index) ==
  IF index >= Len(rowType) THEN map
  ELSE forEach_caseSensitive(Assign(map, rowType[index + 1].name, index), rowType, index + 1)

\* The rowType.forEach of buildColumnMap from `index` on.
RECURSIVE forEach(_, _, _)
forEach(map, rowType, index) ==
  IF index >= Len(rowType) THEN map
  ELSE forEach(Assign(map, toLowerCase(rowType[index + 1].name), index), rowType, index + 1)

\* buildColumnMap that indexes no column: every field is read at its fixed
\* fallback position.
buildColumnMap_positional(rowType) == [k \in {} |-> 0]

\* buildColumnMap with case-sensitive keys.
buildColumnMap_caseSensitive(rowType) == forEach_caseSensitive([k \in {} |-> 0], rowType, 0)

\* SnowflakeClientImpl.buildColumnMap
buildColumnMap(rowType) == forEach([k \in {} |-> 0], rowType, 0)

\* The guard every mapper starts with (!result.data || !result.resultSetMetaData),
\* and what it returns when it holds.
NoRows(result) == result.data = undefinedData \/ result.resultSetMetaData = undefinedMeta
\* The empty page reporting a total.
EmptyPage_withTotal == [items |-> <<>>, count |-> 0, total |-> 0, hasMore |-> FALSE]
EmptyPage == [items |-> <<>>, count |-> 0, hasMore |-> FALSE]

\* Page with count taken from the result's numRows.
Page_countFromTotal(items, result) ==
  [ items |-> items, count |-> result.resultSetMetaData.numRows,
    total |-> result.resultSetMetaData.numRows, hasMore |-> FALSE ]

\* Page with total taken from the items mapped.
Page_totalFromCount(items, result) ==
  [ items |-> items, count |-> Len(items), total |-> Len(items), hasMore |-> FALSE ]

\* The PaginatedResponse every mapper ends with.
Page(items, result) ==
  [ items |-> items, count |-> Len(items), total |-> result.resultSetMetaData.numRows,
    hasMore |-> FALSE ]

\* One row of mapShowResultToDatabases mapped to a Database.
DatabaseOf(row, columnMap) ==
    [ name |-> OrText(Cell(row, columnMap, Key.name, 0), <<>>),
      createdOn |-> Cell(row, columnMap, Key.created_on, 1),
      origin |-> Cell(row, columnMap, Key.origin, -1),
      owner |-> Cell(row, columnMap, Key.owner, -1),
      comment |-> Cell(row, columnMap, Key.comment, -1),
      options |-> Cell(row, columnMap, Key.options, -1),
      retentionTime |-> Cell(row, columnMap, Key.retention_time, -1),
      resourceGroup |-> Cell(row, columnMap, Key.resource_group, -1),
      kind |-> Cell(row, columnMap, Key.kind, -1) ]

\* SnowflakeClientImpl.mapShowResultToDatabases
mapShowResultToDatabases(result) ==
  IF NoRows(result) THEN EmptyPage
  ELSE LET columnMap == buildColumnMap(result.resultSetMetaData.rowType)
       IN Page([i \in 1..Len(result.data) |-> DatabaseOf(result.data[i], columnMap)], result)

\* One row of mapShowResultToSchemas mapped to a Schema.
SchemaOf(row, columnMap, database) ==
    [ name |-> OrText(Cell(row, columnMap, Key.name, 0), <<>>),
      databaseName |-> database,
      createdOn |-> Cell(row, columnMap, Key.created_on, -1),
      owner |-> Cell(row, columnMap, Key.owner, -1),
      comment |-> Cell(row, columnMap, Key.comment, -1),
      options |-> Cell(row, columnMap, Key.options, -1),
      retentionTime |-> Cell(row, columnMap, Key.retention_time, -1) ]

\* SnowflakeClientImpl.mapShowResultToSchemas
mapShowResultToSchemas(result, database) ==
  IF NoRows(result) THEN EmptyPage
  ELSE LET columnMap == buildColumnMap(result.resultSetMetaData.rowType)
       IN Page([i \in 1..Len(result.data) |-> SchemaOf(result.data[i], columnMap, database)], result)

\* One row of mapShowResultToTables mapped to a Table.
TableOf(row, columnMap, database, schema) ==
    [ name |-> OrText(Cell(row, columnMap, Key.name, 0), <<>>),
      databaseName |-> database,
      schemaName |-> schema,
      kind |-> Cell(row, columnMap, Key.kind, -1),
      createdOn |-> Cell(row, columnMap, Key.created_on, -1),
      owner |-> Cell(row, columnMap, Key.owner, -1),
      comment |-> Cell(row, columnMap, Key.comment, -1),
      clusterBy |-> Cell(row, columnMap, Key.cluster_by, -1),
      rows |-> IntCell(Cell(row, columnMap, Key.rows, -1)),
      bytes |-> IntCell(Cell(row, columnMap, Key.bytes, -1)),
      retentionTime |-> Cell(row, columnMap, Key.retention_time, -1),
      automaticClustering |-> Cell(row, columnMap, Key.automatic_clustering, -1),
      changeTracking |-> Cell(row, columnMap, Key.change_tracking, -1),
      isExternal |-> Cell(row, columnMap, Key.is_external, -1) ]

\* SnowflakeClientImpl.mapShowResultToTables
mapShowResultToTables(result, database, schema) ==
  IF NoRows(result) THEN EmptyPage
  ELSE LET columnMap == buildColumnMap(result.resultSetMetaData.rowType)
       IN Page([i \in 1..Len(result.data) |-> TableOf(result.data[i], columnMap, database, schema)], result)

\* One row of mapShowResultToViews mapped to a View.
ViewOf(row, columnMap, database, schema) ==
    [ name |-> OrText(Cell(row, columnMap, Key.name, 0), <<>>),
      databaseName |-> database,
      schemaName |-> schema,
      createdOn |-> Cell(row, columnMap, Key.created_on, -1),
      owner |-> Cell(row, columnMap, Key.owner, -1),
      comment |-> Cell(row, columnMap, Key.comment, -1),
      text |-> Cell(row, columnMap, Key.text, -1),
      isSecure |-> Cell(row, columnMap, Key.is_secure, -1),
      isMaterialized |-> Cell(row, columnMap, Key.is_materialized, -1) ]

\* SnowflakeClientImpl.mapShowResultToViews
mapShowResultToViews(result, database, schema) ==
  IF NoRows(result) THEN EmptyPage
  ELSE LET columnMap == buildColumnMap(result.resultSetMetaData.rowType)
       IN Page([i \in 1..Len(result.data) |-> ViewOf(result.data[i], columnMap, database, schema)], result)

\* One row of mapDescribeResultToColumns mapped to a Column.
ColumnOf(row, columnMap) ==
    [ name |-> OrText(Cell(row, columnMap, Key.name, 0), <<>>),
      type |-> OrText(Cell(row, columnMap, Key.type, 1), <<>>),
      kind |-> Cell(row, columnMap, Key.kind, -1),
      nullable |-> EqualsLower(Cell(row, columnMap, Key.null, -1), Txt.y),
      default |-> Cell(row, columnMap, Key.default, -1),
      primaryKey |-> EqualsLower(Cell(row, columnMap, Key.primary_key, -1), Txt.y),
      uniqueKey |-> EqualsLower(Cell(row, columnMap, Key.unique_key, -1), Txt.y),
      check |-> Cell(row, columnMap, Key.check, -1),
      expression |-> Cell(row, columnMap, Key.expression, -1),
      comment |-> Cell(row, columnMap, Key.comment, -1),
      policyName |-> Cell(row, columnMap, Key.policy_name, -1) ]

\* SnowflakeClientImpl.mapDescribeResultToColumns
mapDescribeResultToColumns(result) ==
  IF NoRows(result) THEN EmptyPage
  ELSE LET columnMap == buildColumnMap(result.resultSetMetaData.rowType)
       IN Page([i \in 1..Len(result.data) |-> ColumnOf(result.data[i], columnMap)], result)

\* One row of mapShowResultToWarehouses mapped to a Warehouse.
WarehouseOf(row, columnMap) ==
    [ name |-> OrText(Cell(row, columnMap, Key.name, 0), <<>>),
      state |-> OrText(Cell(row, columnMap, Key.state, 1), Txt.SUSPENDED),
      type |-> Cell(row, columnMap, Key.type, -1),
      size |-> Cell(row, columnMap, Key.size, -1),
      minClusterCount |-> IntCell(Cell(row, columnMap, Key.min_cluster_count, -1)),
      maxClusterCount |-> IntCell(Cell(row, columnMap, Key.max_cluster_count, -1)),
      startedClusters |-> IntCell(Cell(row, columnMap, Key.started_clusters, -1)),
      running |-> IntCell(Cell(row, columnMap, Key.running, -1)),
      queued |-> IntCell(Cell(row, columnMap, Key.queued, -1)),
      isDefault |-> EqualsLower(Cell(row, columnMap, Key.is_default, -1), Txt.y),
      isCurrent |-> EqualsLower(Cell(row, columnMap, Key.is_current, -1), Txt.y),
      autoSuspend |-> IntCell(Cell(row, columnMap, Key.auto_suspend, -1)),
      autoResume |-> EqualsLower(Cell(row, columnMap, Key.auto_resume, -1), Txt.true),
      available |-> Cell(row, columnMap, Key.available, -1),
      provisioning |-> Cell(row, columnMap, Key.provisioning, -1),
      quiescing |-> Cell(row, columnMap, Key.quiescing, -1),
      other |-> Cell(row, columnMap, Key.other, -1),
      createdOn |-> Cell(row, columnMap, Key.created_on, -1),
      resumedOn |-> Cell(row, columnMap, Key.resumed_on, -1),
      updatedOn |-> Cell(row, columnMap, Key.updated_on, -1),
      owner |-> Cell(row, columnMap, Key.owner, -1),
      comment |-> Cell(row, columnMap, Key.comment, -1),
      resourceMonitor |-> Cell(row, columnMap, Key.resource_monitor, -1),
      scalingPolicy |-> Cell(row, columnMap, Key.scaling_policy, -1) ]

\* SnowflakeClientImpl.mapShowResultToWarehouses
mapShowResultToWarehouses(result) ==
  IF NoRows(result) THEN EmptyPage
  ELSE LET columnMap == buildColumnMap(result.resultSetMetaData.rowType)
       IN Page([i \in 1..Len(result.data) |-> WarehouseOf(result.data[i], columnMap)], result)

\* ------------------------------------------------------------ error classes
Return(v) == [kind |-> "return", value |-> v]
Throw(e) == [kind |-> "throw", error |-> e]

\* class SnowflakeApiError (retryable defaults to false, code to SNOWFLAKE_ERROR)
SnowflakeApiError(message, statusCode, code, retryable, sqlState) ==
  [ name |-> "SnowflakeApiError", message |-> message, statusCode |-> statusCode,
    code |-> Or(code, "SNOWFLAKE_ERROR"), retryable |-> retryable,
    sqlState |-> sqlState ]

\* class RateLimitError
RateLimitError(message, retryAfterSeconds) ==
  [ SnowflakeApiError(message, 429, "RATE_LIMIT_EXCEEDED", TRUE, undefined)
      EXCEPT !.name = "RateLimitError" ]
    @@ [retryAfterSeconds |-> retryAfterSeconds]

\* class AuthenticationError
AuthenticationError(message) ==
  [ SnowflakeApiError(message, 401, "AUTHENTICATION_FAILED", FALSE, undefined)
      EXCEPT !.name = "AuthenticationError" ]

\* class StatementError
StatementError(message, statementHandle, sqlState, code) ==
  [ SnowflakeApiError(message, 422, Or(code, "STATEMENT_ERROR"), FALSE, sqlState)
      EXCEPT !.name = "StatementError" ]
    @@ [statementHandle |-> statementHandle]

\* class TimeoutError
TimeoutError(message, statementHandle) ==
  [ SnowflakeApiError(message, 408, "EXECUTION_TIMEOUT", TRUE, undefined)
      EXCEPT !.name = "TimeoutError" ]
    @@ [statementHandle |-> statementHandle]

\* Errors of the runtime that are no SnowflakeApiError: fetch() rejects with a
\* TypeError on a network failure, Response.json() with a SyntaxError, and
\* validateCredentials throws a plain Error.
TypeError(message) == [name |-> "TypeError", message |-> message]
SyntaxError(message) == [name |-> "SyntaxError", message |-> message]
Error(message) == [name |-> "Error", message |-> message]

\* error instanceof SnowflakeApiError
IsSnowflakeApiError(e) ==
  e.name \in { "SnowflakeApiError", "RateLimitError", "AuthenticationError",
               "StatementError", "TimeoutError", "NotFoundError", "ValidationError" }

\* ---------------------------------------------------------------- transport
\* A parsed JSON object with none of the fields the code reads: {} (its
\* stats, an object when present, are undefined).
EmptyObject ==
  [ statementHandle |-> undefined, statementStatusUrl |-> undefined,
    message |-> undefinedText, error |-> undefinedText, sqlState |-> undefined,
    code |-> undefined, resultSetMetaData |-> undefinedMeta, data |-> undefinedData,
    stats |-> [tag |-> "undefined"] ]

\* response.ok
ResponseOk(response) == response.status >= 200 /\ response.status <= 299

\* response.json().catch(() => ({})) that never reads the body.
JsonOrEmpty_ignoreBody(response) == EmptyObject

\* response.json().catch(() => ({}))
JsonOrEmpty(response) == IF response.body.json THEN response.body.value ELSE EmptyObject

DefaultRetryAfter == 60

\* The 429 branch of request() when it ignores the Retry-After header.
RateLimitBranch_ignoreHeader(response) ==
  Throw(RateLimitError(<<"Rate limit exceeded">>, Num(DefaultRetryAfter)))

\* The 429 branch of request().
RateLimitBranch(response) ==
  LET retryAfter == response.retryAfter
  IN Throw(RateLimitError(<<"Rate limit exceeded">>,
             IF TruthyText(retryAfter) THEN parseInt(retryAfter)
             ELSE Num(DefaultRetryAfter)))

\* The fall-through branch of request(): any other status that is not ok.
GenericBranch(response) ==
  LET default == <<"Snowflake API error: ">> \o String(response.status)
      errorJson == response.body.value
      message == IF ~response.body.json THEN default
                 ELSE IF TruthyText(errorJson.message) THEN errorJson.message
                 ELSE IF TruthyText(errorJson.error) THEN errorJson.error
                 ELSE default
  IN Throw(SnowflakeApiError(message, response.status, undefined, FALSE, undefined))

\* request() classifying 408 as a generic error.
Classify_no408(response) ==
  IF response.status = 429 THEN RateLimitBranch(response)
  ELSE IF response.status = 401 \/ response.status = 403
  THEN Throw(AuthenticationError(
         <<"Authentication failed. Check your Snowflake account and JWT token.">>))
  ELSE IF response.status = 422
  THEN LET body == JsonOrEmpty(response)
       IN Throw(StatementError(
            IF TruthyText(body.message) THEN body.message
            ELSE <<"Statement execution failed">>,
            body.statementHandle, body.sqlState, body.code))
  ELSE IF ~ResponseOk(response) THEN GenericBranch(response)
  ELSE Return(undefined)

\* The status checks of request(), from the 429 test to the !response.ok test:
\* the error thrown, or Return(undefined) when none is.
Classify(response) ==
  IF response.status = 429 THEN RateLimitBranch(response)
  ELSE IF response.status = 401 \/ response.status = 403
  THEN Throw(AuthenticationError(
         <<"Authentication failed. Check your Snowflake account and JWT token.">>))
  ELSE IF response.status = 408
  THEN LET body == JsonOrEmpty(response)
       IN Throw(TimeoutError(
            IF TruthyText(body.message) THEN body.message
            ELSE <<"Statement execution timed out">>,
            body.statementHandle))
  ELSE IF response.status = 422
  THEN LET body == JsonOrEmpty(response)
       IN Throw(StatementError(
            IF TruthyText(body.message) THEN body.message
            ELSE <<"Statement execution failed">>,
            body.statementHandle, body.sqlState, body.code))
  ELSE IF ~ResponseOk(response) THEN GenericBranch(response)
  ELSE Return(undefined)

\* What `await this.request(...)` yields once fetch() has settled with
\* `settled`: a rejected fetch rethrows its TypeError, a classified status
\* throws its error, and an ok response yields response.json(), which rejects
\* with a SyntaxError when the body is no JSON.
requestResult(settled) ==
  IF settled.kind = "rejected" THEN Throw(TypeError(<<"fetch failed">>))
  ELSE LET classified == Classify(settled)
       IN IF classified.kind = "throw" THEN classified
          ELSE IF settled.body.json THEN Return(settled.body.value)
          ELSE Throw(SyntaxError(<<"Unexpected end of JSON input">>))

\* -------------------------------------------------------------------- state
\* One inbound HTTP call of the Worker per element of Calls; the Worker keeps
\* nothing between calls, so all of a call's state is indexed by the call.
Calls == 1..NumCalls

VARIABLES
  pc,       \* per call: idle, replied, serving, awaiting, settled, done
  inbound,  \* per call: the inbound request (path, method, headers)
  reply,    \* per call: the Worker's own response (status 0 when none)
  client,   \* per call: the SnowflakeClientImpl createStatelessServer made
  call,     \* per call: the client operation invoked and its arguments
  fetched,  \* per call: the outbound fetch() calls issued while serving it
  settled,  \* per call: how the pending fetch() settled
  outcome,  \* per call: what the client operation returned or threw
  response, \* per call: what the tool handler of the operation returned or threw
  remote    \* the remote statements: handle -> running, completed, cancelled

vars == <<pc, inbound, reply, client, call, fetched, settled, outcome, response, remote>>

Handles == {"h1"}

\* Request headers none of which is present.
NoHeaders ==
  [ account |-> null, token |-> null, warehouse |-> null, database |-> null,
    schema |-> null, role |-> null ]
NoInbound == [path |-> "", method |-> "", headers |-> NoHeaders]
NoReply == [status |-> 0, message |-> <<>>]
NoCall == [op |-> "none"]
Pending == [kind |-> "pending"]
NoOutcome == [kind |-> "none"]

\* The client of an inbound call that has constructed none.
NoClient == [credentials |-> undefined, baseUrl |-> <<>>]

\* The state with every call of `cs` still to arrive and the remote
\* statements in `r`.
InitWith(cs, r) ==
  /\ pc = [c \in cs |-> "idle"]
  /\ inbound = [c \in cs |-> NoInbound]
  /\ reply = [c \in cs |-> NoReply]
  /\ client = [c \in cs |-> NoClient]
  /\ call = [c \in cs |-> NoCall]
  /\ fetched = [c \in cs |-> <<>>]
  /\ settled = [c \in cs |-> Pending]
  /\ outcome = [c \in cs |-> NoOutcome]
  /\ response = [c \in cs |-> NoOutcome]
  /\ remote = r

\* -------------------------------------------------------------- credentials
ContextFields == {"database", "schema", "warehouse", "role"}

\* parseTenantCredentials: headers.get(name) is null for an absent header.
parseTenantCredentials(request) ==
  LET headers == request.headers
  IN [ account |-> Or(headers.account, ""),
       token |-> Or(headers.token, ""),
       warehouse |-> Or(headers.warehouse, undefined),
       database |-> Or(headers.database, undefined),
       schema |-> Or(headers.schema, undefined),
       role |-> Or(headers.role, undefined) ]

MissingAccount ==
  <<"Missing X-Snowflake-Account header. Provide your Snowflake account identifier.">>
MissingToken ==
  <<"Missing X-Snowflake-Token header. Provide your JWT token for authentication.">>

\* validateCredentials that checks the account only.
validateCredentials_accountOnly(credentials) ==
  IF ~Truthy(credentials.account) THEN Throw(Error(MissingAccount))
  ELSE Return(undefined)

\* validateCredentials testing the token before the account.
validateCredentials_tokenFirst(credentials) ==
  IF ~Truthy(credentials.token) THEN Throw(Error(MissingToken))
  ELSE IF ~Truthy(credentials.account) THEN Throw(Error(MissingAccount))
  ELSE Return(undefined)

\* validateCredentials
validateCredentials(credentials) ==
  IF ~Truthy(credentials.account) THEN Throw(Error(MissingAccount))
  ELSE IF ~Truthy(credentials.token) THEN Throw(Error(MissingToken))
  ELSE Return(undefined)

\* ------------------------------------------------------------------- client
\* new SnowflakeClientImpl(credentials), reached through createSnowflakeClient.
SnowflakeClientImpl(credentials) ==
  [ credentials |-> credentials,
    baseUrl |-> <<"https://", credentials.account, ".snowflakecomputing.com/api/v2">> ]

\* getAuthHeaders reading a client kept for the whole Worker (the first one
\* constructed among the calls in progress) instead of this call's own.
getAuthHeaders_shared(this) ==
  LET kept == client[CHOOSE d \in DOMAIN pc : pc[d] \notin {"idle", "replied"}]
  IN [ Authorization |-> <<"Bearer ", kept.credentials.token>>,
       ContentType |-> "application/json",
       Accept |-> "application/json",
       TokenType |-> "KEYPAIR_JWT",
       UserAgent |-> "primrose-mcp-snowflake/1.0.0" ]

\* SnowflakeClientImpl.getAuthHeaders
getAuthHeaders(this) ==
  [ Authorization |-> <<"Bearer ", this.credentials.token>>,
    ContentType |-> "application/json",
    Accept |-> "application/json",
    TokenType |-> "KEYPAIR_JWT",
    UserAgent |-> "primrose-mcp-snowflake/1.0.0" ]

\* The fetch(url, init) call of request(): the URL from baseUrl, endpoint and
\* the URLSearchParams of queryParams, the method (GET unless options names
\* one), the headers and the JSON body.
fetchCall(this, endpoint, method, body, queryParams) ==
  [ url |-> [base |-> this.baseUrl, endpoint |-> endpoint, query |-> queryParams],
    method |-> method,
    headers |-> getAuthHeaders(this),
    body |-> body ]

DefaultTimeout == 60

\* The request body of executeStatement with the tenant default taking
\* precedence over the request's value.
StatementBody_defaultWins(this, request) ==
  LET credentials == this.credentials
      present == {f \in ContextFields : Truthy(request[f]) \/ Truthy(credentials[f])}
      extra == {f \in {"bindings", "parameters"} : Truthy(request[f])}
  IN [ k \in {"statement", "timeout"} \cup present \cup extra |->
         IF k = "statement" THEN request.statement
         ELSE IF k = "timeout"
         THEN (IF TruthyNum(request.timeout) THEN request.timeout ELSE Num(DefaultTimeout))
         ELSE IF k \in ContextFields THEN Or(credentials[k], request[k])
         ELSE request[k] ]

\* StatementBody sending 60 seconds whatever the request's timeout.
StatementBody_fixedTimeout(this, request) ==
  LET credentials == this.credentials
      present == {f \in ContextFields : Truthy(request[f]) \/ Truthy(credentials[f])}
      extra == {f \in {"bindings", "parameters"} : Truthy(request[f])}
  IN [ k \in {"statement", "timeout"} \cup present \cup extra |->
         IF k = "statement" THEN request.statement
         ELSE IF k = "timeout" THEN Num(DefaultTimeout)
         ELSE IF k \in ContextFields THEN Or(request[k], credentials[k])
         ELSE request[k] ]

\* The request body executeStatement and executeStatementAsync build: a key
\* is in the body's domain exactly when the code assigns it.
StatementBody(this, request) ==
  LET credentials == this.credentials
      present == {f \in ContextFields : Truthy(request[f]) \/ Truthy(credentials[f])}
      extra == {f \in {"bindings", "parameters"} : Truthy(request[f])}
  IN [ k \in {"statement", "timeout"} \cup present \cup extra |->
         IF k = "statement" THEN request.statement
         ELSE IF k = "timeout"
         THEN (IF TruthyNum(request.timeout) THEN request.timeout ELSE Num(DefaultTimeout))
         ELSE IF k \in ContextFields THEN Or(request[k], credentials[k])
         ELSE request[k] ]

\* No body: the init of a GET, or of the cancel POST.
NoBody == [k \in {} |-> undefined]

\* getStatementResult's query string when it never sends the partition.
PartitionQuery_dropped(partition) == <<>>

\* getStatementResult's queryParams as URLSearchParams renders them: none when
\* partition is undefined, else partition=<String(partition)>.
PartitionQuery(partition) ==
  IF partition.tag # "undefined" THEN <<"partition", "=">> \o String(partition.value)
  ELSE <<>>

\* ------------------------------------------------------------ Worker.fetch
\* The Worker's fetch handler on inbound request `request`: /health, then
\* POST /mcp (credentials parsed and validated, 401 when invalid, else a
\* stateless server with its own client), then /sse, then the API document.
fetch(c, Inbound) ==
  /\ pc[c] = "idle"
  /\ \E request \in Inbound :
       LET credentials == parseTenantCredentials(request)
           mcp == request.path = "/mcp" /\ request.method = "POST"
           validated == validateCredentials(credentials)
       IN /\ inbound' = [inbound EXCEPT ![c] = request]
          /\ IF request.path # "/health" /\ mcp /\ validated.kind = "return"
             THEN /\ client' = [client EXCEPT ![c] = SnowflakeClientImpl(credentials)]
                  /\ pc' = [pc EXCEPT ![c] = "serving"]
                  /\ reply' = reply
             ELSE /\ client' = client
                  /\ pc' = [pc EXCEPT ![c] = "replied"]
                  /\ reply' = [reply EXCEPT ![c] =
                       IF request.path = "/health" THEN [status |-> 200, message |-> <<>>]
                       ELSE IF mcp
                       THEN [status |-> 401, message |-> validated.error.message]
                       ELSE IF request.path = "/sse"
                       THEN [status |-> 501, message |-> <<>>]
                       ELSE [status |-> 200, message |-> <<>>]]
  /\ UNCHANGED <<call, fetched, settled, outcome, response, remote>>

\* ------------------------------------------------------- client operations
\* An operation up to its `await this.request(...)`: the fetch() is issued.
Issue(c, op, f) ==
  /\ pc[c] = "serving"
  /\ call' = [call EXCEPT ![c] = op]
  /\ fetched' = [fetched EXCEPT ![c] = Append(@, f)]
  /\ pc' = [pc EXCEPT ![c] = "awaiting"]
  /\ UNCHANGED <<inbound, reply, client, settled, outcome, response, remote>>

executeStatement(c, Requests) ==
  \E request \in Requests :
    Issue(c, [op |-> "executeStatement", request |-> request],
          fetchCall(client[c], <<"/statements">>, "POST",
                    StatementBody(client[c], request), <<>>))

executeStatementAsync(c, Requests) ==
  \E request \in Requests :
    Issue(c, [op |-> "executeStatementAsync", request |-> request],
          fetchCall(client[c], <<"/statements">>, "POST",
                    StatementBody(client[c], request), <<"async", "=", "true">>))

\* getStatementStatus asking the remote to cancel the statement it polls.
getStatementStatus_cancelling(c, Hs) ==
  \E statementHandle \in Hs :
    Issue(c, [op |-> "getStatementStatus", statementHandle |-> statementHandle],
          fetchCall(client[c], <<"/statements/", statementHandle, "/cancel">>, "POST",
                    NoBody, <<>>))

getStatementStatus(c, Hs) ==
  \E statementHandle \in Hs :
    Issue(c, [op |-> "getStatementStatus", statementHandle |-> statementHandle],
          fetchCall(client[c], <<"/statements/", statementHandle>>, "GET", NoBody, <<>>))

getStatementResult(c, Hs, Partitions) ==
  \E statementHandle \in Hs, partition \in Partitions :
    Issue(c, [op |-> "getStatementResult", statementHandle |-> statementHandle,
              partition |-> partition],
          fetchCall(client[c], <<"/statements/", statementHandle>>, "GET", NoBody,
                    PartitionQuery(partition)))

cancelStatement(c, Hs) ==
  \E statementHandle \in Hs :
    Issue(c, [op |-> "cancelStatement", statementHandle |-> statementHandle],
          fetchCall(client[c], <<"/statements/", statementHandle, "/cancel">>, "POST",
                    NoBody, <<>>))

\* The StatementRequest of a list, describe or warehouse operation: a
\* statement and a timeout, nothing else.
StatementRequest(statement, timeout) ==
  [ statement |-> statement, timeout |-> Num(timeout), database |-> undefined,
    schema |-> undefined, warehouse |-> undefined, role |-> undefined,
    bindings |-> undefined, parameters |-> undefined ]

\* this.executeStatement(request) up to its `await this.request(...)`, called
\* by the operation `op`.
IssueStatement(c, op, request) ==
  Issue(c, op, fetchCall(client[c], <<"/statements">>, "POST",
                         StatementBody(client[c], request), <<>>))

listDatabases(c) ==
  IssueStatement(c, [op |-> "listDatabases"], StatementRequest(<<"SHOW DATABASES">>, 30))

listSchemas(c, Databases) ==
  \E database \in Databases :
    IssueStatement(c, [op |-> "listSchemas", database |-> database],
                   StatementRequest(<<"SHOW SCHEMAS IN DATABASE \"", database, "\"">>, 30))

listTables(c, Databases, Schemas) ==
  \E database \in Databases, schema \in Schemas :
    IssueStatement(c, [op |-> "listTables", database |-> database, schema |-> schema],
                   StatementRequest(<<"SHOW TABLES IN \"", database, "\".\"", schema, "\"">>,
                                    30))

listViews(c, Databases, Schemas) ==
  \E database \in Databases, schema \in Schemas :
    IssueStatement(c, [op |-> "listViews", database |-> database, schema |-> schema],
                   StatementRequest(<<"SHOW VIEWS IN \"", database, "\".\"", schema, "\"">>,
                                    30))

describeTable(c, Databases, Schemas, Tables) ==
  \E database \in Databases, schema \in Schemas, table \in Tables :
    IssueStatement(c, [op |-> "describeTable", database |-> database, schema |-> schema,
                       table |-> table],
                   StatementRequest(<<"DESCRIBE TABLE \"", database, "\".\"", schema,
                                      "\".\"", table, "\"">>, 30))

listWarehouses(c) ==
  IssueStatement(c, [op |-> "listWarehouses"], StatementRequest(<<"SHOW WAREHOUSES">>, 30))

getWarehouseStatus(c, Warehouses) ==
  \E warehouseName \in Warehouses :
    IssueStatement(c, [op |-> "getWarehouseStatus", warehouseName |-> warehouseName],
                   StatementRequest(<<"SHOW WAREHOUSES LIKE '", warehouseName, "'">>, 30))

resumeWarehouse(c, Warehouses) ==
  \E warehouseName \in Warehouses :
    IssueStatement(c, [op |-> "resumeWarehouse", warehouseName |-> warehouseName],
                   StatementRequest(<<"ALTER WAREHOUSE \"", warehouseName, "\" RESUME">>, 60))

suspendWarehouse(c, Warehouses) ==
  \E warehouseName \in Warehouses :
    IssueStatement(c, [op |-> "suspendWarehouse", warehouseName |-> warehouseName],
                   StatementRequest(<<"ALTER WAREHOUSE \"", warehouseName, "\" SUSPEND">>, 60))

\* testConnection up to the `await this.request(...)` of its executeStatement.
testConnection(c) ==
  LET credentials == client[c].credentials
  IN IssueStatement(c, [op |-> "testConnection"],
       [ StatementRequest(<<"SELECT CURRENT_USER(), CURRENT_ACCOUNT(), CURRENT_ROLE()">>, 30)
           EXCEPT !.warehouse = credentials.warehouse, !.database = credentials.database,
                  !.schema = credentials.schema, !.role = credentials.role ])

\* ---------------------------------------------------------------- the wire
\* The last fetch() call issued for c: the one that is pending.
Pendingfetch(c) == fetched[c][Len(fetched[c])]

IsCancel(f) ==
  f.method = "POST" /\ Len(f.url.endpoint) = 3 /\ f.url.endpoint[3] = "/cancel"

\* The pending fetch() of c settles with one of Answers: the remote's HTTP
\* response or a network failure.  A cancel the remote accepts for a running
\* statement stops it.
settle(c, Answers) ==
  /\ pc[c] = "awaiting"
  /\ \E a \in Answers :
       /\ settled' = [settled EXCEPT ![c] = a]
       /\ LET f == Pendingfetch(c)
              h == f.url.endpoint[2]
          IN IF IsCancel(f) /\ a.kind = "response" /\ ResponseOk(a)
                /\ remote[h] = "running"
             THEN remote' = [remote EXCEPT ![h] = "cancelled"]
             ELSE remote' = remote
  /\ pc' = [pc EXCEPT ![c] = "settled"]
  /\ UNCHANGED <<inbound, reply, client, call, fetched, outcome, response>>

\* An absent Warehouse: what items[0] of an empty list is.
undefinedWarehouse == [tag |-> "undefined"]

\* getWarehouseStatus returning items[0] without looking at the length.
getWarehouseStatusResult_unchecked(warehouseName, result) ==
  LET warehouses == mapShowResultToWarehouses(result)
  IN IF Len(warehouses.items) = 0 THEN Return(undefinedWarehouse)
     ELSE Return(warehouses.items[1])

\* getWarehouseStatus after its `await this.executeStatement(...)`.
getWarehouseStatusResult(warehouseName, result) ==
  LET warehouses == mapShowResultToWarehouses(result)
  IN IF Len(warehouses.items) = 0
     THEN Throw(SnowflakeApiError(<<"Warehouse '", warehouseName, "' not found">>, 404,
                                  "NOT_FOUND", FALSE, undefined))
     ELSE Return(warehouses.items[1])

\* testConnection without its try/catch: a failure of the statement is
\* rethrown.
testConnectionResult_uncaught(this, r) ==
  IF r.kind = "throw" THEN r
  ELSE LET result == mapStatementResponse(r.value)
       IN IF result.status = "success" /\ result.data # undefinedData
             /\ Len(result.data) > 0
          THEN Return([ connected |-> TRUE,
                        message |-> <<"Connected as ", At(result.data[1], 0),
                                      " with role ", At(result.data[1], 2)>>,
                        account |-> At(result.data[1], 1) ])
          ELSE Return([ connected |-> FALSE,
                        message |-> <<"Connection test returned unexpected response">>,
                        account |-> this.credentials.account ])

\* testConnection after its `await this.executeStatement(...)` settled with
\* `r` (what request() threw or yielded): the catch turns a failure into
\* {connected: false} with the error's message; [user, account, role] are the
\* first three cells of the first row.
testConnectionResult(this, r) ==
  IF r.kind = "throw"
  THEN Return([ connected |-> FALSE, message |-> r.error.message,
                account |-> this.credentials.account ])
  ELSE LET result == mapStatementResponse(r.value)
       IN IF result.status = "success" /\ result.data # undefinedData
             /\ Len(result.data) > 0
          THEN Return([ connected |-> TRUE,
                        message |-> <<"Connected as ", At(result.data[1], 0),
                                      " with role ", At(result.data[1], 2)>>,
                        account |-> At(result.data[1], 1) ])
          ELSE Return([ connected |-> FALSE,
                        message |-> <<"Connection test returned unexpected response">>,
                        account |-> this.credentials.account ])

\* operationResult with a cancel that swallows every failure of its request.
operationResult_bestEffortCancel(this, op, s) ==
  LET r == requestResult(s)
  IN IF op.op = "cancelStatement"
     THEN Return([ success |-> TRUE,
                   message |-> <<"Statement ", op.statementHandle,
                                 " cancelled successfully">> ])
     ELSE IF r.kind = "throw" THEN r
     ELSE Return(mapStatementResponse(r.value))

\* What the operation `op` makes of the settled fetch(): request() throws or
\* yields the parsed body; cancelStatement then returns its fixed success
\* record, every statement operation mapStatementResponse of the body, and
\* a list, describe or warehouse operation its mapper's page of that result.
operationResult(this, op, s) ==
  LET r == requestResult(s)
  IN IF op.op = "testConnection" THEN testConnectionResult(this, r)
     ELSE IF r.kind = "throw" THEN r
     ELSE IF op.op = "cancelStatement"
     THEN Return([ success |-> TRUE,
                   message |-> <<"Statement ", op.statementHandle,
                                 " cancelled successfully">> ])
     ELSE LET result == mapStatementResponse(r.value)
          IN CASE op.op = "listDatabases" -> Return(mapShowResultToDatabases(result))
               [] op.op = "listSchemas" ->
                    Return(mapShowResultToSchemas(result, op.database))
               [] op.op = "listTables" ->
                    Return(mapShowResultToTables(result, op.database, op.schema))
               [] op.op = "listViews" ->
                    Return(mapShowResultToViews(result, op.database, op.schema))
               [] op.op = "describeTable" -> Return(mapDescribeResultToColumns(result))
               [] op.op = "listWarehouses" -> Return(mapShowResultToWarehouses(result))
               [] op.op = "getWarehouseStatus" ->
                    getWarehouseStatusResult(op.warehouseName, result)
               [] op.op = "resumeWarehouse" ->
                    Return([ success |-> TRUE,
                             message |-> <<"Warehouse '", op.warehouseName,
                                           "' resumed successfully">> ])
               [] op.op = "suspendWarehouse" ->
                    Return([ success |-> TRUE,
                             message |-> <<"Warehouse '", op.warehouseName,
                                           "' suspended successfully">> ])
               [] OTHER -> Return(result)

\* formatError: the tool response for a caught error; details is what
\* formatErrorForLogging keeps of it (its stack left out).
formatError(error) ==
  LET message ==
        IF IsSnowflakeApiError(error)
        THEN <<"Error: ">> \o error.message
               \o (IF error.retryable THEN <<" (retryable)">> ELSE <<>>)
               \o (IF Truthy(error.sqlState)
                   THEN <<" [SQL State: ", error.sqlState, "]">> ELSE <<>>)
        ELSE <<"Error: ">> \o error.message
  IN [ content |-> [error |-> message, details |-> error], isError |-> Bool(TRUE) ]

\* A tool handler whose catch passes on what is no SnowflakeApiError.
toolHandler_rethrowing(op, result) ==
  IF result.kind = "return"
  THEN Return([content |-> result.value, isError |-> undefinedBool])
  ELSE IF ~IsSnowflakeApiError(result.error) THEN result
  ELSE Return(formatError(result.error))

\* The handler of the tool registered for the operation `op`, its client
\* operation having returned or thrown `result`: the try returns a content
\* made of the returned value (as JSON or markdown text), the catch returns
\* formatError(error), or for snowflake_test_connection its own error text.
toolHandler(op, result) ==
  IF result.kind = "return"
  THEN Return([content |-> result.value, isError |-> undefinedBool])
  ELSE IF op.op = "testConnection"
  THEN Return([ content |-> <<"Connection failed: ">> \o result.error.message,
                isError |-> Bool(TRUE) ])
  ELSE Return(formatError(result.error))

\* The operation of c retrying its request after a retryable failure.
resume_retrying(c) ==
  /\ pc[c] = "settled"
  /\ LET r == operationResult(client[c], call[c], settled[c])
     IN IF r.kind = "throw" /\ IsSnowflakeApiError(r.error) /\ r.error.retryable
           /\ Len(fetched[c]) < 2
        THEN /\ fetched' = [fetched EXCEPT ![c] = Append(@, Pendingfetch(c))]
             /\ pc' = [pc EXCEPT ![c] = "awaiting"]
             /\ UNCHANGED <<outcome, response>>
        ELSE /\ outcome' = [outcome EXCEPT ![c] = r]
             /\ response' = [response EXCEPT ![c] = toolHandler(call[c], r)]
             /\ pc' = [pc EXCEPT ![c] = "done"]
             /\ fetched' = fetched
  /\ UNCHANGED <<inbound, reply, client, call, settled, remote>>

\* The operation of c from its `await this.request(...)` to its return or
\* throw, nothing being issued again whatever the response, and its tool
\* handler from there to its own return.
resume(c) ==
  /\ pc[c] = "settled"
  /\ LET result == operationResult(client[c], call[c], settled[c])
     IN /\ outcome' = [outcome EXCEPT ![c] = result]
        /\ response' = [response EXCEPT ![c] = toolHandler(call[c], result)]
  /\ pc' = [pc EXCEPT ![c] = "done"]
  /\ UNCHANGED <<inbound, reply, client, call, fetched, settled, remote>>

\* ------------------------------------------------------------------ inputs
\* Inbound requests.
HeadersA == [NoHeaders EXCEPT !.account = "acctA", !.token = "tokA", !.warehouse = "WH_A"]
HeadersB ==
  [NoHeaders EXCEPT !.account = "acctB", !.token = "tokB", !.database = "DB_B",
                    !.role = "ROLE_B"]
McpPost(headers) == [path |-> "/mcp", method |-> "POST", headers |-> headers]
Health == [path |-> "/health", method |-> "GET", headers |-> NoHeaders]

\* Statement requests.
PlainRequest ==
  [ statement |-> "SELECT 1", timeout |-> undefinedNum, database |-> undefined,
    schema |-> undefined, warehouse |-> undefined, role |-> undefined,
    bindings |-> undefined, parameters |-> undefined ]

\* Responses of the remote API.
JsonBody(value) == [json |-> TRUE, value |-> value]
\* A body that is no JSON text (an empty body, an HTML error page).
NotJson == [json |-> FALSE, value |-> EmptyObject]
Response(status, retryAfter, body) ==
  [kind |-> "response", status |-> status, retryAfter |-> retryAfter, body |-> body]
\* fetch() rejecting: the network failed.
Rejected == [kind |-> "rejected"]

CompletedBody ==
  [ EmptyObject EXCEPT !.statementHandle = "h1", !.message = Txt.ExecutedSuccessfully,
                       !.statementStatusUrl = "/api/v2/statements/h1",
                       !.data = << << <<"1">> >> >> ]
Ok200 == Response(200, undefinedText, JsonBody(CompletedBody))

\* ------------------------------------------------- the multi-tenant Worker
\* Inbound calls of two tenants, of callers without token or with an empty
\* account, and of a health probe arrive in any interleaving; each valid call
\* invokes one operation.
InboundMT ==
  { McpPost(HeadersA), McpPost(HeadersB), McpPost([HeadersA EXCEPT !.token = null]),
    McpPost([HeadersB EXCEPT !.account = ""]), Health }
RequestsMT == { [PlainRequest EXCEPT !.schema = "S_REQ"] }
AnswersMT ==
  { Ok200, Response(429, undefinedText, NotJson), Rejected }

Init == InitWith(Calls, [h \in Handles |-> "running"])

Next ==
  \E c \in Calls :
    \/ fetch(c, InboundMT)
    \/ executeStatement(c, RequestsMT)
    \/ executeStatementAsync(c, RequestsMT)
    \/ getStatementStatus(c, Handles)
    \/ getStatementResult(c, Handles, {Num(1)})
    \/ cancelStatement(c, Handles)
    \/ settle(c, AnswersMT)
    \/ resume(c)

Spec == Init /\ [][Next]_vars

\* ------------------------------------------- status inference (one call)

\* 200 responses with every combination of a status URL (absent, empty,
\* given) and a message.
AnswersStatus ==
  LET Messages ==
        { undefinedText, <<>>, Txt.ExecutedSuccessfully, Txt.InProgress, Txt.SUCCESS,
          Txt.Success, Txt.succes, Txt.QueryFailed, Txt.failed, Txt.fail, Txt.ERROR,
          Txt.SqlError, Txt.err, Txt.Unsuccessful, Txt.Queued }
      StatusUrls == { undefined, "", "/api/v2/statements/h1" }
  IN { Response(200, undefinedText,
                JsonBody([ EmptyObject EXCEPT !.statementHandle = "h1",
                                              !.statementStatusUrl = u, !.message = m ])) :
         u \in StatusUrls, m \in Messages }

\* A single inbound call.
OneCall == {1}

InitOne == InitWith(OneCall, [h \in Handles |-> "running"])

NextStatus ==
  \E c \in OneCall :
    \/ fetch(c, {McpPost(HeadersA)})
    \/ executeStatement(c, {PlainRequest})
    \/ executeStatementAsync(c, {PlainRequest})
    \/ getStatementStatus(c, Handles)
    \/ getStatementResult(c, Handles, {undefinedNum, Num(0)})
    \/ settle(c, AnswersStatus)
    \/ resume(c)

SpecStatus == InitOne /\ [][NextStatus]_vars

\* ------------------------------------- transport classification (one call)
ErrorBody ==
  [ EmptyObject EXCEPT !.statementHandle = "h1", !.message = Txt.Compilation,
                       !.sqlState = "42S02", !.code = "002003" ]

\* Every combination of a status, a Retry-After header (absent, for which
\* headers.get gives null, empty, delay seconds, or an HTTP date) and a body;
\* or the network fails.
AnswersTransport ==
  LET Statuses ==
        {200, 201, 204, 299, 300, 304, 400, 401, 403, 404, 408, 409, 422, 429, 500, 503}
      RetryAfters ==
        { undefinedText, <<>>, String(30), String(0), String(120), Txt.HttpDate }
      Bodies ==
        { NotJson, JsonBody(EmptyObject), JsonBody(CompletedBody), JsonBody(ErrorBody) }
  IN { Response(st, ra, b) : st \in Statuses, ra \in RetryAfters, b \in Bodies }
       \cup { Rejected }

NextTransport ==
  \E c \in OneCall :
    \/ fetch(c, {McpPost(HeadersA)})
    \/ executeStatement(c, {PlainRequest})
    \/ executeStatementAsync(c, {PlainRequest})
    \/ getStatementStatus(c, Handles)
    \/ getStatementResult(c, Handles, {Num(0)})
    \/ cancelStatement(c, Handles)
    \/ settle(c, AnswersTransport)
    \/ resume(c)

SpecTransport == InitOne /\ [][NextTransport]_vars

\* --------------------------------- credentials and statement context (one call)
\* Every combination of absent, empty and given account and token headers and
\* of absent, empty and given default-context headers.
InboundCtx ==
  { McpPost([ account |-> a, token |-> t, warehouse |-> w, database |-> d,
              schema |-> sc, role |-> r ]) :
      a \in {null, "", "acctA"}, t \in {null, "", "tokA"},
      w \in {null, "", "WH_CRED"}, d \in {null, "", "DB_CRED"},
      sc \in {null, "", "SC_CRED"}, r \in {null, "", "ROLE_CRED"} }

\* Every combination of unspecified, empty and given context fields.
RequestsCtx ==
  { [ PlainRequest EXCEPT !.warehouse = w, !.database = d, !.schema = sc, !.role = r ] :
      w \in {undefined, "", "WH_REQ"}, d \in {undefined, "", "DB_REQ"},
      sc \in {undefined, "", "SC_REQ"}, r \in {undefined, "", "ROLE_REQ"} }

NextContext ==
  \E c \in OneCall :
    \/ fetch(c, InboundCtx)
    \/ executeStatement(c, RequestsCtx)
    \/ executeStatementAsync(c, RequestsCtx)
    \/ settle(c, {Ok200})
    \/ resume(c)

SpecContext == InitOne /\ [][NextContext]_vars

\* --------------------------------------- cancelling a completed statement
\* What the remote may answer to a request about a statement that has
\* already completed: success, success without a JSON body, a statement
\* error, not found; or the network fails.
AnswersCancel ==
  { Response(200, undefinedText,
             JsonBody([EmptyObject EXCEPT !.statementHandle = "h1",
                                          !.message = Txt.Cancelled])),
    Response(200, undefinedText, NotJson),
    Response(422, undefinedText, JsonBody(ErrorBody)),
    Response(404, undefinedText, NotJson),
    Rejected }

InitCancel == InitWith(Calls, [h \in Handles |-> "completed"])

NextCancel ==
  \E c \in Calls :
    \/ fetch(c, {McpPost(HeadersA)})
    \/ cancelStatement(c, Handles)
    \/ getStatementStatus(c, Handles)
    \/ settle(c, AnswersCancel)
    \/ resume(c)

SpecCancel == InitCancel /\ [][NextCancel]_vars

\* ------------------------------------------------ a multi-partition result
\* The remote holds a completed statement h1 whose result has NumPartitions
\* partitions of RowsPerPartition one-cell rows r1, r2, ...
ResultRows ==
  [ i \in 1..(NumPartitions * RowsPerPartition) |-> << <<"r">> \o String(i) >> ]
\* GET /statements/h1?partition=<n> answered with that partition's rows; the
\* partition a query string asks for is <n>, or 0 without one.
RemoteResult(f) ==
  LET RemotePartition(p) ==
        SubSeq(ResultRows, p * RowsPerPartition + 1, (p + 1) * RowsPerPartition)
      QueryPartition(query) ==
        IF query = <<>> THEN 0 ELSE parseInt(SubSeq(query, 3, Len(query))).value
  IN Response(200, undefinedText,
              JsonBody([ EmptyObject EXCEPT
                           !.statementHandle = "h1",
                           !.message = Txt.ExecutedSuccessfully,
                           !.data = RemotePartition(QueryPartition(f.url.query)) ]))
AnswersPartition(c) ==
  { RemoteResult(Pendingfetch(c)), Response(429, String(30), NotJson) }

PartitionCalls == 1..NumPartitions

InitPartitions == InitWith(PartitionCalls, [h \in Handles |-> "completed"])

NextPartitions ==
  \E c \in PartitionCalls :
    \/ fetch(c, {McpPost(HeadersA)})
    \/ getStatementResult(c, Handles, { Num(p) : p \in 0..(NumPartitions - 1) })
    \/ settle(c, AnswersPartition(c))
    \/ resume(c)

SpecPartitions == InitPartitions /\ [][NextPartitions]_vars

\* ------------------------------------------ list and describe commands (one call)
\* Sequences over S of length at most n.
SeqsUpTo(S, n) == UNION { [1..k -> S] : k \in 0..n }

\* A column of rowType.
Column(name) == [name |-> name, type |-> "text"]
\* A resultSetMetaData.
MetaData(numRows, partitionInfo, rowType) ==
  [numRows |-> numRows, partitionInfo |-> partitionInfo, rowType |-> rowType]
\* A 200 response carrying a result.
ResultResponse(meta, data) ==
  Response(200, undefinedText,
           JsonBody([ EmptyObject EXCEPT !.statementHandle = "h1",
                                         !.message = Txt.ExecutedSuccessfully,
                                         !.resultSetMetaData = meta, !.data = data ]))

\* Results of a list command: no data, no rows, up to MaxRows rows (one of
\* them empty); no metadata, or metadata with the name column first or last
\* or no column, a numRows that is or is not the number of rows sent, and no,
\* one or two partitions; or the warehouse answers 404.
AnswersCatalog ==
  LET CatalogRows == { <<>>, <<Txt.WH_XS, Txt.SUSPENDED>>, <<Txt.WH_L, Txt.STARTED>> }
      CatalogData == { undefinedData } \cup SeqsUpTo(CatalogRows, MaxRows)
      CatalogRowTypes ==
        { <<>>, <<Column(Key.name), Column(Key.state)>>,
          <<Column(Key.state), Column(Txt.NAME)>> }
      CatalogPartitions ==
        { undefinedPartitionInfo, PartitionInfo(<< [rowCount |-> 1] >>),
          PartitionInfo(<< [rowCount |-> 1], [rowCount |-> 4] >>) }
      CatalogMeta ==
        { undefinedMeta } \cup
        { MetaData(n, pi, rt) :
            n \in {0, 1, 5}, pi \in CatalogPartitions, rt \in CatalogRowTypes }
  IN { ResultResponse(meta, data) : meta \in CatalogMeta, data \in CatalogData }
       \cup { Response(404, undefinedText, NotJson) }

NextCatalog ==
  \E c \in OneCall :
    \/ fetch(c, {McpPost(HeadersA)})
    \/ listDatabases(c)
    \/ listSchemas(c, {"DB1"})
    \/ listTables(c, {"DB1"}, {"PUBLIC"})
    \/ listViews(c, {"DB1"}, {"PUBLIC"})
    \/ describeTable(c, {"DB1"}, {"PUBLIC"}, {"T1"})
    \/ listWarehouses(c)
    \/ getWarehouseStatus(c, {"WH_XS"})
    \/ settle(c, AnswersCatalog)
    \/ resume(c)

SpecCatalog == InitOne /\ [][NextCatalog]_vars

\* ----------------------------------------- column lookup by name (one call)
\* Results of one row under every rowType of at most MaxColumns columns,
\* names repeated or not.  The column names are as the warehouse may send
\* them: the name column in three casings, the columns with a positional
\* fallback, a plain text column, two numeric columns and two flag columns.
\* The row is one of two that are long enough for every column and fallback
\* and differ from index to index: numbers, or the flags Y and n in turn.
AnswersColumns ==
  LET ColumnNames ==
        { Key.name, Txt.NAME, Txt.Name, Key.state, Key.type, Key.created_on,
          Key.comment, Key.rows, Key.running, Key.is_default, Key.null }
      RowTypes ==
        { [i \in 1..Len(ns) |-> Column(ns[i])] : ns \in SeqsUpTo(ColumnNames, MaxColumns) }
      NumbersRow == [i \in 1..(MaxColumns + 1) |-> String(10 + i)]
      FlagsRow == [i \in 1..(MaxColumns + 1) |-> IF i % 2 = 1 THEN <<"Y">> ELSE <<"n">>]
  IN { ResultResponse(MetaData(1, undefinedPartitionInfo, rt), <<row>>) :
         rt \in RowTypes, row \in {NumbersRow, FlagsRow} }

NextColumns ==
  \E c \in OneCall :
    \/ fetch(c, {McpPost(HeadersA)})
    \/ listDatabases(c)
    \/ listSchemas(c, {"DB1"})
    \/ listTables(c, {"DB1"}, {"PUBLIC"})
    \/ listViews(c, {"DB1"}, {"PUBLIC"})
    \/ describeTable(c, {"DB1"}, {"PUBLIC"}, {"T1"})
    \/ listWarehouses(c)
    \/ settle(c, AnswersColumns)
    \/ resume(c)

SpecColumns == InitOne /\ [][NextColumns]_vars

\* ------------------------------------------- cells and short rows (one call)
\* Results of one row, every row of at most MaxCells cells (a cell being
\* empty, zero, a number, a text that is no number, a flag, or SQL NULL),
\* under a rowType with no column (every field at its fallback or absent) or
\* with numeric, flag and text columns at the first indexes.
AnswersCells ==
  LET Cells == { <<>>, String(0), String(12), Txt.abc, Txt.Y, nullText }
      Rows == SeqsUpTo(Cells, MaxCells)
      CellRowTypes ==
        { <<>>,
          <<Column(Key.rows), Column(Key.running), Column(Key.comment)>>,
          <<Column(Key.is_default), Column(Key.primary_key), Column(Key.queued)>>,
          <<Column(Key.auto_suspend), Column(Key.bytes)>> }
  IN { ResultResponse(MetaData(1, undefinedPartitionInfo, rt), <<row>>) :
         rt \in CellRowTypes, row \in Rows }

NextCells ==
  \E c \in OneCall :
    \/ fetch(c, {McpPost(HeadersA)})
    \/ listDatabases(c)
    \/ listSchemas(c, {"DB1"})
    \/ listTables(c, {"DB1"}, {"PUBLIC"})
    \/ listViews(c, {"DB1"}, {"PUBLIC"})
    \/ describeTable(c, {"DB1"}, {"PUBLIC"}, {"T1"})
    \/ listWarehouses(c)
    \/ settle(c, AnswersCells)
    \/ resume(c)

SpecCells == InitOne /\ [][NextCells]_vars

\* ------------------------------------------------------------------ claims
Invoked(c) == pc[c] \in {"awaiting", "settled", "done"}
Done(c) == pc[c] = "done"
Returned(c) == Done(c) /\ outcome[c].kind = "return"
Threw(c) == Done(c) /\ outcome[c].kind = "throw"
IsStatementOp(c) ==
  call[c].op \in { "executeStatement", "executeStatementAsync", "getStatementStatus",
                   "getStatementResult" }
IsSubmission(c) == call[c].op \in {"executeStatement", "executeStatementAsync"}

\* C4: nothing is retried or scheduled inside the core.  In every reachable
\* state a call whose operation has been invoked (pending, settled or
\* finished, whatever the response) has issued exactly one outbound request,
\* and a call that has invoked no operation has issued none; so no request is
\* ever issued outside an invoked operation or after it finished.
C4_OneRequestPerOperation ==
  \A c \in DOMAIN pc : Len(fetched[c]) = IF Invoked(c) THEN 1 ELSE 0

\* C4 witness: an operation that failed with the retryable rate-limit error
\* has finished having issued its single request.
C4_Witness ==
  \E c \in DOMAIN pc :
    /\ Threw(c)
    /\ outcome[c].error.name = "RateLimitError"
    /\ outcome[c].error.retryable
    /\ Len(fetched[c]) = 1

\* C5: under any interleaving of inbound calls, every outbound request issued
\* for a call carries the account (in the base URL) and the bearer token of
\* that call's own inbound headers, and a submitted statement's context
\* fields that the request leaves out are exactly that call's header defaults.
C5_TenantIsolation ==
  \A c \in DOMAIN pc :
    \A i \in 1..Len(fetched[c]) :
      LET f == fetched[c][i]
          headers == inbound[c].headers
      IN /\ f.url.base = <<"https://", headers.account, ".snowflakecomputing.com/api/v2">>
         /\ f.headers.Authorization = <<"Bearer ", headers.token>>
         /\ IsSubmission(c) =>
              \A k \in ContextFields :
                ~Truthy(call[c].request[k]) =>
                  IF Truthy(headers[k])
                  THEN k \in DOMAIN f.body /\ f.body[k] = headers[k]
                  ELSE k \notin DOMAIN f.body

\* C5 witness: two calls of different tenants are in progress at once, one
\* finished and one still waiting for the warehouse, both having submitted.
C5_Witness ==
  \E c, d \in DOMAIN pc :
    /\ c # d
    /\ inbound[c].headers.account = "acctA"
    /\ inbound[d].headers.account = "acctB"
    /\ Done(c) /\ pc[d] = "awaiting"
    /\ IsSubmission(c) /\ IsSubmission(d)

ContainsLower(message, word) ==
  message # undefinedText /\ includes(toLowerCase(message), word)
Word_success == <<"s","u","c","c","e","s","s">>
Word_failed == <<"f","a","i","l","e","d">>
Word_error == <<"e","r","r","o","r">>

\* C1 as stated: for every (statementStatusUrl, message) of a warehouse
\* response the status follows the precedence status URL present -> running;
\* else message contains 'failed' or 'error' (any case) -> failed_with_error;
\* else -> success, for each of the four statement operations.
C1_UrlFirstPrecedence ==
  \A c \in DOMAIN pc :
    Returned(c) /\ IsStatementOp(c) =>
      LET body == settled[c].body.value
          url == body.statementStatusUrl
          message == body.message
      IN outcome[c].value.status =
           IF Truthy(url) THEN "running"
           ELSE IF ContainsLower(message, Word_failed) \/ ContainsLower(message, Word_error)
           THEN "failed_with_error"
           ELSE "success"

\* C1 amended: a message containing 'success' (any case) comes first and
\* gives success even when a status URL is present; only then status URL
\* present -> running; else message contains 'failed' or 'error' ->
\* failed_with_error; else -> success; for each of the four operations.
C1_SuccessFirstPrecedence ==
  \A c \in DOMAIN pc :
    Returned(c) /\ IsStatementOp(c) =>
      LET body == settled[c].body.value
          url == body.statementStatusUrl
          message == body.message
      IN outcome[c].value.status =
           IF ContainsLower(message, Word_success) THEN "success"
           ELSE IF Truthy(url) THEN "running"
           ELSE IF ContainsLower(message, Word_failed) \/ ContainsLower(message, Word_error)
           THEN "failed_with_error"
           ELSE "success"

\* C1 witness: a polled statement whose response carries a status URL and
\* the message "Statement executed successfully." has been mapped to success.
C1_Witness ==
  \E c \in DOMAIN pc :
    /\ Returned(c)
    /\ call[c].op = "getStatementStatus"
    /\ Truthy(settled[c].body.value.statementStatusUrl)
    /\ settled[c].body.value.message = Txt.ExecutedSuccessfully
    /\ outcome[c].value.status = "success"

\* C2: for every HTTP response status the classification yields exactly one
\* outcome: 429 -> RateLimitError, retryable; 401 or 403 ->
\* AuthenticationError, not retryable; 408 -> TimeoutError, retryable; 422 ->
\* StatementError, not retryable; any other status outside 200..299 -> the
\* generic SnowflakeApiError, not retryable, carrying the raw status code; a
\* status in 200..299 makes the classification raise none of these.
C2_StatusClassification ==
  \A c \in DOMAIN pc :
    Done(c) /\ settled[c].kind = "response" =>
      LET st == settled[c].status
          o == outcome[c]
          Raised(name, retryable) ==
            /\ o.kind = "throw"
            /\ o.error.name = name
            /\ o.error.retryable = retryable
      IN IF st = 429 THEN Raised("RateLimitError", TRUE)
         ELSE IF st \in {401, 403} THEN Raised("AuthenticationError", FALSE)
         ELSE IF st = 408 THEN Raised("TimeoutError", TRUE)
         ELSE IF st = 422 THEN Raised("StatementError", FALSE)
         ELSE IF st < 200 \/ st > 299
         THEN Raised("SnowflakeApiError", FALSE) /\ o.error.statusCode = st
         ELSE o.kind = "return" \/ ~IsSnowflakeApiError(o.error)

\* C2 witness: a 408 response has been classified as the retryable timeout.
C2_Witness ==
  \E c \in DOMAIN pc :
    /\ Threw(c)
    /\ settled[c].kind = "response"
    /\ settled[c].status = 408
    /\ outcome[c].error.name = "TimeoutError"

\* C3 as stated: every failure a caller of a client operation observes is a
\* member of the error taxonomy (a SnowflakeApiError); a network failure of
\* the outbound call or an unparsable response body surfaces as the generic
\* SnowflakeApiError.
C3_OnlyTaxonomyErrors ==
  \A c \in DOMAIN pc :
    Threw(c) =>
      /\ IsSnowflakeApiError(outcome[c].error)
      /\ settled[c].kind = "rejected" => outcome[c].error.name = "SnowflakeApiError"

\* C10: a 429 response raises a RateLimitError whose retryAfterSeconds is the
\* integer the Retry-After header states when the header is present with a
\* decimal integer, and 60 when the header is absent.
C10_RetryAfterSeconds ==
  \A c \in DOMAIN pc :
    Done(c) /\ settled[c].kind = "response" /\ settled[c].status = 429 =>
      /\ outcome[c].kind = "throw"
      /\ outcome[c].error.name = "RateLimitError"
      /\ settled[c].retryAfter = undefinedText =>
           outcome[c].error.retryAfterSeconds = Num(60)
      /\ \A n \in 0..120 :
           settled[c].retryAfter = String(n) =>
             outcome[c].error.retryAfterSeconds = Num(n)

\* C10 witness: a 429 response with Retry-After: 30 has raised the error with
\* retryAfterSeconds = 30.
C10_Witness ==
  \E c \in DOMAIN pc :
    /\ Threw(c)
    /\ settled[c].kind = "response"
    /\ settled[c].status = 429
    /\ settled[c].retryAfter = String(30)
    /\ outcome[c].error.retryAfterSeconds = Num(30)

\* C6 as stated: for each context field of a submitted statement the value
\* sent is the request's value whenever the request specifies one (anything
\* but undefined), the tenant default only when the request specifies none,
\* and the field is omitted when neither specifies it.
C6_RequestValueWins ==
  \A c \in DOMAIN pc :
    Invoked(c) /\ IsSubmission(c) =>
      \A k \in ContextFields :
        LET body == fetched[c][1].body
            requested == call[c].request[k]
            default == client[c].credentials[k]
        IN IF requested # undefined THEN k \in DOMAIN body /\ body[k] = requested
           ELSE IF default # undefined THEN k \in DOMAIN body /\ body[k] = default
           ELSE k \notin DOMAIN body

\* C6 amended: the value sent is the request's value whenever the request
\* gives a non-empty one; the tenant default when the request's value is
\* unspecified or the empty string and the default is set; and the field is
\* omitted when the request's value is unspecified or empty and there is no
\* default.
C6_NonEmptyRequestValueWins ==
  \A c \in DOMAIN pc :
    Invoked(c) /\ IsSubmission(c) =>
      \A k \in ContextFields :
        LET body == fetched[c][1].body
            requested == call[c].request[k]
            default == client[c].credentials[k]
        IN IF requested # undefined /\ requested # ""
           THEN k \in DOMAIN body /\ body[k] = requested
           ELSE IF default # undefined THEN k \in DOMAIN body /\ body[k] = default
           ELSE k \notin DOMAIN body

\* C6 witness: a statement was submitted whose request names a database
\* while the tenant has another default database, and the request's went out;
\* its schema came from the tenant default and its role was omitted.
C6_Witness ==
  \E c \in DOMAIN pc :
    /\ Invoked(c) /\ call[c].op = "executeStatementAsync"
    /\ call[c].request.database = "DB_REQ"
    /\ client[c].credentials.database = "DB_CRED"
    /\ "database" \in DOMAIN fetched[c][1].body
    /\ fetched[c][1].body.database = "DB_REQ"
    /\ call[c].request.schema = undefined
    /\ "schema" \in DOMAIN fetched[c][1].body
    /\ fetched[c][1].body.schema = "SC_CRED"
    /\ "role" \notin DOMAIN fetched[c][1].body

\* C7: credential construction from the headers of POST /mcp either yields
\* credentials or fails naming the first missing (absent or empty) required
\* header, the account before the token; an absent optional header yields
\* undefined for its field and never a failure.
C7_CredentialConstruction ==
  \A c \in DOMAIN pc :
    pc[c] # "idle" /\ inbound[c].path = "/mcp" /\ inbound[c].method = "POST" =>
      LET h == inbound[c].headers
          Missing(v) == v = null \/ v = ""
      IN IF Missing(h.account)
         THEN pc[c] = "replied" /\ reply[c].message = MissingAccount
         ELSE IF Missing(h.token)
         THEN pc[c] = "replied" /\ reply[c].message = MissingToken
         ELSE /\ pc[c] # "replied"
              /\ client[c].credentials.account = h.account
              /\ client[c].credentials.token = h.token
              /\ \A k \in ContextFields :
                   client[c].credentials[k] = IF Missing(h[k]) THEN undefined ELSE h[k]

\* C7 witness: a call with neither account nor token was refused naming the
\* account.
C7_Witness ==
  \E c \in DOMAIN pc :
    /\ pc[c] = "replied"
    /\ inbound[c].headers.account = null
    /\ inbound[c].headers.token = null
    /\ reply[c].message = MissingAccount

IsResultFetch(c, p) ==
  call[c].op = "getStatementResult" /\ call[c].partition = Num(p)

\* The rows returned for partitions 0..p, each taken from a finished call
\* that asked for it.
RECURSIVE RowsThrough(_)
RowsThrough(p) ==
  IF p < 0 THEN <<>>
  ELSE RowsThrough(p - 1)
         \o outcome[CHOOSE c \in DOMAIN pc : Returned(c) /\ IsResultFetch(c, p)].value.data

\* C9: getStatementResult(handle, p) requests exactly partition p of that
\* handle (GET /statements/<handle>?partition=<p>) and returns that
\* partition's rows unchanged; once calls for p = 0 .. k-1 against the
\* completed k-partition statement have returned, their rows in order of p
\* are every row of the result exactly once.
C9_PartitionsExactlyOnce ==
  /\ \A c \in DOMAIN pc : \A p \in 0..(NumPartitions - 1) :
       Invoked(c) /\ IsResultFetch(c, p) =>
         /\ fetched[c][1].method = "GET"
         /\ fetched[c][1].url.endpoint = <<"/statements/", call[c].statementHandle>>
         /\ fetched[c][1].url.query = <<"partition", "=">> \o String(p)
         /\ Returned(c) =>
              outcome[c].value.data =
                SubSeq(ResultRows, p * RowsPerPartition + 1, (p + 1) * RowsPerPartition)
  /\ (\A p \in 0..(NumPartitions - 1) :
        \E c \in DOMAIN pc : Returned(c) /\ IsResultFetch(c, p))
       => RowsThrough(NumPartitions - 1) = ResultRows

\* C9 witness: every partition 0 .. k-1 has been fetched by a call that
\* returned, the last one holding the last rows of the result.
C9_Witness ==
  /\ \A p \in 0..(NumPartitions - 1) :
       \E c \in DOMAIN pc : Returned(c) /\ IsResultFetch(c, p)
  /\ \E c \in DOMAIN pc :
       /\ Returned(c) /\ IsResultFetch(c, NumPartitions - 1)
       /\ outcome[c].value.data[RowsPerPartition] = ResultRows[Len(ResultRows)]

\* C11: a 422 response raises a StatementError carrying the statement handle,
\* the sqlState and the vendor code of the response body, and a 408 response
\* a TimeoutError carrying the body's statement handle when it has one, for
\* whichever operation received the response; a body that is missing or is
\* no JSON raises the same error with no handle, no sqlState and no vendor
\* code (the error's code is then the class code STATEMENT_ERROR).
C11_StatementErrorFields ==
  \A c \in DOMAIN pc :
    Done(c) /\ settled[c].kind = "response" /\ settled[c].status \in {408, 422} =>
      LET b == settled[c].body
          Field(f) == IF b.json THEN b.value[f] ELSE undefined
          e == outcome[c].error
      IN /\ outcome[c].kind = "throw"
         /\ e.statementHandle = Field("statementHandle")
         /\ IF settled[c].status = 422
            THEN /\ e.name = "StatementError"
                 /\ e.sqlState = Field("sqlState")
                 /\ e.code = IF Truthy(Field("code")) THEN Field("code")
                             ELSE "STATEMENT_ERROR"
            ELSE /\ e.name = "TimeoutError"
                 /\ e.code = "EXECUTION_TIMEOUT"

\* C11 witness: a status poll answered 422 has raised a StatementError with
\* the body's handle, sqlState and vendor code, not during submission.
C11_Witness ==
  \E c \in DOMAIN pc :
    /\ Threw(c)
    /\ call[c].op = "getStatementStatus"
    /\ settled[c].kind = "response"
    /\ settled[c].status = 422
    /\ settled[c].body = JsonBody(ErrorBody)
    /\ outcome[c].error.name = "StatementError"
    /\ outcome[c].error.statementHandle = "h1"
    /\ outcome[c].error.sqlState = "42S02"
    /\ outcome[c].error.code = "002003"

IsListOp(c) ==
  call[c].op \in { "listDatabases", "listSchemas", "listTables", "listViews",
                   "describeTable", "listWarehouses" }
\* The result a finished call's 2xx JSON response carried.
Carried(c) == settled[c].body.value
HasRows(c) ==
  Carried(c).data # undefinedData /\ Carried(c).resultSetMetaData # undefinedMeta

\* C12: getWarehouseStatus(name) never returns an undefined value.  When the
\* listing maps to zero entities (no data, no metadata or no rows) it raises
\* a non-retryable error of the taxonomy with code NOT_FOUND (status 404);
\* otherwise it returns a Warehouse, the one mapped from the first row.
C12_WarehouseFoundOrNotFound ==
  \A c \in DOMAIN pc :
    Done(c) /\ call[c].op = "getWarehouseStatus" =>
      /\ outcome[c] # Return(undefinedWarehouse)
      /\ settled[c].kind = "response" /\ ResponseOk(settled[c]) /\ settled[c].body.json =>
           IF ~HasRows(c) \/ Len(Carried(c).data) = 0
           THEN /\ outcome[c].kind = "throw"
                /\ IsSnowflakeApiError(outcome[c].error)
                /\ outcome[c].error.code = "NOT_FOUND"
                /\ outcome[c].error.statusCode = 404
                /\ ~outcome[c].error.retryable
           ELSE /\ outcome[c].kind = "return"
                /\ {"name", "state"} \subseteq DOMAIN outcome[c].value

\* C12 witness: a warehouse lookup whose listing came back with metadata but
\* no row has raised NOT_FOUND.
C12_Witness ==
  \E c \in DOMAIN pc :
    /\ Threw(c)
    /\ call[c].op = "getWarehouseStatus"
    /\ settled[c].kind = "response" /\ settled[c].status = 200
    /\ Carried(c).resultSetMetaData # undefinedMeta
    /\ Carried(c).data = <<>>
    /\ outcome[c].error.code = "NOT_FOUND"

\* The index of the column a lower-cased key names in rowType: of the last
\* one when several columns have that name in some casing; -1 when none has.
ColumnIndex(rowType, key) ==
  LET named == {i \in 1..Len(rowType) : toLowerCase(rowType[i].name) = key}
  IN IF named = {} THEN -1 ELSE (CHOOSE i \in named : \A j \in named : j <= i) - 1

\* C13 as stated: for every rowType, a column whose name is some casing of a
\* key, at index i, is resolved by the lower-cased key to index i.
C13_EveryColumnResolvesToItsIndex ==
  \A c \in DOMAIN pc :
    Done(c) /\ IsListOp(c) =>
      LET rowType == Carried(c).resultSetMetaData.rowType
          columnMap == buildColumnMap(rowType)
      IN \A i \in 1..Len(rowType) :
           LET key == toLowerCase(rowType[i].name)
           IN key \in DOMAIN columnMap /\ columnMap[key] = i - 1

\* C13 amended: lookup is case-insensitive; a column at index i is resolved
\* by its lower-cased name to index i unless a later column has the same
\* name in some casing, and then to the index of the last such column; a key
\* no column has is not in the map.
C13_LastColumnOfANameWins ==
  \A c \in DOMAIN pc :
    Done(c) /\ IsListOp(c) =>
      LET rowType == Carried(c).resultSetMetaData.rowType
          columnMap == buildColumnMap(rowType)
      IN /\ \A i \in 1..Len(rowType) :
              LET key == toLowerCase(rowType[i].name)
              IN /\ key \in DOMAIN columnMap
                 /\ columnMap[key] = ColumnIndex(rowType, key)
                 /\ (\A j \in (i + 1)..Len(rowType) : toLowerCase(rowType[j].name) # key)
                      => columnMap[key] = i - 1
         /\ \A key \in DOMAIN columnMap : ColumnIndex(rowType, key) >= 0
         /\ Returned(c) =>
              outcome[c].value.items[1].name =
                Carried(c).data[1][(IF ColumnIndex(rowType, Key.name) >= 0
                                    THEN ColumnIndex(rowType, Key.name) ELSE 0) + 1]

\* C13 witness: a listing whose name column is called NAME and stands second
\* has been mapped, the entity's name being the second cell.
C13_Witness ==
  \E c \in DOMAIN pc :
    /\ Returned(c) /\ IsListOp(c)
    /\ Len(Carried(c).resultSetMetaData.rowType) = 2
    /\ Carried(c).resultSetMetaData.rowType[1].name = Key.comment
    /\ Carried(c).resultSetMetaData.rowType[2].name = Txt.NAME
    /\ outcome[c].value.items[1].name = Carried(c).data[1][2]

\* The fields each list operation maps from a column: the field, the column's
\* lower-cased name, the kind of value (name: text defaulting to ''; state:
\* text defaulting to 'SUSPENDED'; text; number; flag) and a flag's literal.
Field(field, key, kind, literal) ==
  [field |-> field, key |-> key, kind |-> kind, literal |-> literal]
Fields_listDatabases ==
  { Field("name", Key.name, "name", <<>>),
    Field("createdOn", Key.created_on, "text", <<>>),
    Field("origin", Key.origin, "text", <<>>),
    Field("owner", Key.owner, "text", <<>>),
    Field("comment", Key.comment, "text", <<>>),
    Field("options", Key.options, "text", <<>>),
    Field("retentionTime", Key.retention_time, "text", <<>>),
    Field("resourceGroup", Key.resource_group, "text", <<>>),
    Field("kind", Key.kind, "text", <<>>) }
Fields_listSchemas ==
  { Field("name", Key.name, "name", <<>>),
    Field("createdOn", Key.created_on, "text", <<>>),
    Field("owner", Key.owner, "text", <<>>),
    Field("comment", Key.comment, "text", <<>>),
    Field("options", Key.options, "text", <<>>),
    Field("retentionTime", Key.retention_time, "text", <<>>) }
Fields_listTables ==
  { Field("name", Key.name, "name", <<>>),
    Field("kind", Key.kind, "text", <<>>),
    Field("createdOn", Key.created_on, "text", <<>>),
    Field("owner", Key.owner, "text", <<>>),
    Field("comment", Key.comment, "text", <<>>),
    Field("clusterBy", Key.cluster_by, "text", <<>>),
    Field("rows", Key.rows, "number", <<>>),
    Field("bytes", Key.bytes, "number", <<>>),
    Field("retentionTime", Key.retention_time, "text", <<>>),
    Field("automaticClustering", Key.automatic_clustering, "text", <<>>),
    Field("changeTracking", Key.change_tracking, "text", <<>>),
    Field("isExternal", Key.is_external, "text", <<>>) }
Fields_listViews ==
  { Field("name", Key.name, "name", <<>>),
    Field("createdOn", Key.created_on, "text", <<>>),
    Field("owner", Key.owner, "text", <<>>),
    Field("comment", Key.comment, "text", <<>>),
    Field("text", Key.text, "text", <<>>),
    Field("isSecure", Key.is_secure, "text", <<>>),
    Field("isMaterialized", Key.is_materialized, "text", <<>>) }
Fields_describeTable ==
  { Field("name", Key.name, "name", <<>>),
    Field("type", Key.type, "name", <<>>),
    Field("kind", Key.kind, "text", <<>>),
    Field("nullable", Key.null, "flag", Txt.y),
    Field("default", Key.default, "text", <<>>),
    Field("primaryKey", Key.primary_key, "flag", Txt.y),
    Field("uniqueKey", Key.unique_key, "flag", Txt.y),
    Field("check", Key.check, "text", <<>>),
    Field("expression", Key.expression, "text", <<>>),
    Field("comment", Key.comment, "text", <<>>),
    Field("policyName", Key.policy_name, "text", <<>>) }
Fields_listWarehouses ==
  { Field("name", Key.name, "name", <<>>),
    Field("state", Key.state, "state", <<>>),
    Field("type", Key.type, "text", <<>>),
    Field("size", Key.size, "text", <<>>),
    Field("minClusterCount", Key.min_cluster_count, "number", <<>>),
    Field("maxClusterCount", Key.max_cluster_count, "number", <<>>),
    Field("startedClusters", Key.started_clusters, "number", <<>>),
    Field("running", Key.running, "number", <<>>),
    Field("queued", Key.queued, "number", <<>>),
    Field("isDefault", Key.is_default, "flag", Txt.y),
    Field("isCurrent", Key.is_current, "flag", Txt.y),
    Field("autoSuspend", Key.auto_suspend, "number", <<>>),
    Field("autoResume", Key.auto_resume, "flag", Txt.true),
    Field("available", Key.available, "text", <<>>),
    Field("provisioning", Key.provisioning, "text", <<>>),
    Field("quiescing", Key.quiescing, "text", <<>>),
    Field("other", Key.other, "text", <<>>),
    Field("createdOn", Key.created_on, "text", <<>>),
    Field("resumedOn", Key.resumed_on, "text", <<>>),
    Field("updatedOn", Key.updated_on, "text", <<>>),
    Field("owner", Key.owner, "text", <<>>),
    Field("comment", Key.comment, "text", <<>>),
    Field("resourceMonitor", Key.resource_monitor, "text", <<>>),
    Field("scalingPolicy", Key.scaling_policy, "text", <<>>) }
FieldsOf(op) ==
  CASE op = "listDatabases" -> Fields_listDatabases
    [] op = "listSchemas" -> Fields_listSchemas
    [] op = "listTables" -> Fields_listTables
    [] op = "listViews" -> Fields_listViews
    [] op = "describeTable" -> Fields_describeTable
    [] op = "listWarehouses" -> Fields_listWarehouses

\* The documented fallback position of a field, -1 when it has none.
FallbackOf(op, field) ==
  IF field = "name" THEN 0
  ELSE IF field = "state" /\ op = "listWarehouses" THEN 1
  ELSE IF field = "type" /\ op = "describeTable" THEN 1
  ELSE IF field = "createdOn" /\ op = "listDatabases" THEN 1
  ELSE -1

\* The integer a present cell stands for: its value when it is all decimal
\* digits, NaN when it does not start like a number.
Parsed(cell) ==
  IF \A i \in 1..Len(cell) : IsDigit(cell[i]) THEN Num(DigitsValue(cell))
  ELSE IF ~IsDigit(cell[1]) /\ cell[1] \notin {"-", "+", " "} THEN NaN
  ELSE parseInt(cell)

IsAbsent(cell) == cell = undefinedText \/ cell = nullText \/ cell = <<>>

\* The value of a field of kind d.kind read from a cell of the row.
ValueOf(d, cell) ==
  CASE d.kind = "name" -> IF IsAbsent(cell) THEN <<>> ELSE cell
    [] d.kind = "state" -> IF IsAbsent(cell) THEN Txt.SUSPENDED ELSE cell
    [] d.kind = "text" -> cell
    [] d.kind = "number" -> IF IsAbsent(cell) THEN undefinedNum ELSE Parsed(cell)
    [] d.kind = "flag" ->
         Bool(cell # undefinedText /\ cell # nullText /\ toLowerCase(cell) = d.literal)

\* undefined, as a value of the kind of d.
UndefinedOf(d) ==
  CASE d.kind = "number" -> undefinedNum
    [] d.kind = "flag" -> undefinedBool
    [] OTHER -> undefinedText

\* The cell of `row` at 0-based index `index`, undefined outside the row.
CellAt(row, index) ==
  IF index \in 0..(Len(row) - 1) THEN row[index + 1] ELSE undefinedText

\* C14 as stated: in every entity mapper each field is read at the index of
\* the column with the matching name whenever rowType has one (the last such
\* column), wherever it stands; the positional fallback (name 0; state 1 for
\* warehouses; type 1 for columns; created_on 1 for databases) is used only
\* when no column has the name; and a field without fallback whose column is
\* absent is undefined.
C14_NamedThenFallbackElseUndefined ==
  \A c \in DOMAIN pc :
    Returned(c) /\ IsListOp(c) =>
      LET rowType == Carried(c).resultSetMetaData.rowType
          row == Carried(c).data[1]
          item == outcome[c].value.items[1]
      IN \A d \in FieldsOf(call[c].op) :
           LET named == ColumnIndex(rowType, d.key)
               fallback == FallbackOf(call[c].op, d.field)
           IN item[d.field] =
                IF named >= 0 THEN ValueOf(d, CellAt(row, named))
                ELSE IF fallback >= 0 THEN ValueOf(d, CellAt(row, fallback))
                ELSE UndefinedOf(d)

\* C14 amended: as stated for text and numeric fields; a flag field (nullable,
\* primaryKey, uniqueKey of columns; isDefault, isCurrent, autoResume of
\* warehouses) whose column is absent is false, not undefined.
C14_NamedThenFallbackElseUndefinedOrFalse ==
  \A c \in DOMAIN pc :
    Returned(c) /\ IsListOp(c) =>
      LET rowType == Carried(c).resultSetMetaData.rowType
          row == Carried(c).data[1]
          item == outcome[c].value.items[1]
      IN \A d \in FieldsOf(call[c].op) :
           LET named == ColumnIndex(rowType, d.key)
               fallback == FallbackOf(call[c].op, d.field)
           IN item[d.field] =
                IF named >= 0 THEN ValueOf(d, CellAt(row, named))
                ELSE IF fallback >= 0 THEN ValueOf(d, CellAt(row, fallback))
                ELSE IF d.kind = "flag" THEN Bool(FALSE)
                ELSE UndefinedOf(d)

\* C14 witness: warehouses were listed from a rowType with the state column
\* first and the name column second: the name was read at index 1 and the
\* state at index 0, and the running count, whose column is absent, is
\* undefined.
C14_Witness ==
  \E c \in DOMAIN pc :
    /\ Returned(c) /\ call[c].op = "listWarehouses"
    /\ Carried(c).resultSetMetaData.rowType = <<Column(Key.state), Column(Key.name)>>
    /\ outcome[c].value.items[1].name = Carried(c).data[1][2]
    /\ outcome[c].value.items[1].state = Carried(c).data[1][1]
    /\ outcome[c].value.items[1].running = undefinedNum

\* The index a field is read from: its named column's, else its fallback.
ReadIndex(op, rowType, d) ==
  IF ColumnIndex(rowType, d.key) >= 0 THEN ColumnIndex(rowType, d.key)
  ELSE FallbackOf(op, d.field)

\* The optional fields of an entity: every text, numeric and flag field but
\* the column's required `nullable` (name, state and the column's type are
\* required as well).
IsOptional(d) == d.kind \in {"text", "number", "flag"} /\ d.field # "nullable"

\* C15 as stated: for all entity mappers and all rows, when the row is
\* shorter than the index a field is read from (the positional fallback
\* included), mapping does not raise and the optional field is undefined.
C15_ShortRowGivesUndefined ==
  \A c \in DOMAIN pc :
    Done(c) /\ IsListOp(c) =>
      /\ outcome[c].kind = "return"
      /\ LET rowType == Carried(c).resultSetMetaData.rowType
             row == Carried(c).data[1]
             item == outcome[c].value.items[1]
         IN \A d \in FieldsOf(call[c].op) :
              IsOptional(d) /\ ReadIndex(call[c].op, rowType, d) >= Len(row) =>
                item[d.field] = UndefinedOf(d)

\* C15 amended: mapping a row shorter than the index a field is read from
\* does not raise; an optional text or numeric field is then undefined, an
\* optional flag field (primaryKey, uniqueKey, isDefault, isCurrent,
\* autoResume) is false, and the required fields take their defaults (name
\* and the column's type '', state 'SUSPENDED', nullable false).
C15_ShortRowGivesUndefinedOrFalse ==
  \A c \in DOMAIN pc :
    Done(c) /\ IsListOp(c) =>
      /\ outcome[c].kind = "return"
      /\ LET rowType == Carried(c).resultSetMetaData.rowType
             row == Carried(c).data[1]
             item == outcome[c].value.items[1]
         IN \A d \in FieldsOf(call[c].op) :
              ReadIndex(call[c].op, rowType, d) >= Len(row) =>
                item[d.field] =
                  CASE d.kind = "flag" -> Bool(FALSE)
                    [] d.kind = "name" -> <<>>
                    [] d.kind = "state" -> Txt.SUSPENDED
                    [] OTHER -> UndefinedOf(d)

\* C15 witness: databases were listed from a one-cell row without column
\* names: the name is that cell and createdOn, read at the fallback index 1
\* past the row's end, is undefined.
C15_Witness ==
  \E c \in DOMAIN pc :
    /\ Returned(c) /\ call[c].op = "listDatabases"
    /\ Carried(c).resultSetMetaData.rowType = <<>>
    /\ Carried(c).data = << <<Txt.abc>> >>
    /\ outcome[c].value.items[1].name = Txt.abc
    /\ outcome[c].value.items[1].createdOn = undefinedText

IsNumeric(d) == d.kind = "number"

\* C16 as stated: every numeric entity field (rows, bytes; minClusterCount,
\* maxClusterCount, startedClusters, running, queued, autoSuspend) is
\* undefined when its cell is absent and otherwise the integer parsed from
\* the cell, never NaN; a cell '0' maps to 0.
C16_NumericNeverNaN ==
  \A c \in DOMAIN pc :
    Returned(c) /\ IsListOp(c) =>
      LET rowType == Carried(c).resultSetMetaData.rowType
          row == Carried(c).data[1]
          item == outcome[c].value.items[1]
      IN \A d \in FieldsOf(call[c].op) :
           IsNumeric(d) =>
             LET cell == CellAt(row, ColumnIndex(rowType, d.key))
             IN /\ item[d.field] # NaN
                /\ IsAbsent(cell) => item[d.field] = undefinedNum
                /\ ~IsAbsent(cell) => item[d.field].tag = "number"
                /\ cell = String(0) => item[d.field] = Num(0)

\* C16 amended: a numeric field is undefined when its cell is absent, null or
\* the empty string; otherwise it is parseInt of the cell: the integer for a
\* cell of decimal digits ('0' maps to 0 and stays distinct from absence) and
\* NaN for a non-empty cell that does not start with an integer.
C16_NumericParsedOrUndefined ==
  \A c \in DOMAIN pc :
    Returned(c) /\ IsListOp(c) =>
      LET rowType == Carried(c).resultSetMetaData.rowType
          row == Carried(c).data[1]
          item == outcome[c].value.items[1]
      IN \A d \in FieldsOf(call[c].op) :
           IsNumeric(d) =>
             LET cell == CellAt(row, ColumnIndex(rowType, d.key))
             IN /\ item[d.field] = IF IsAbsent(cell) THEN undefinedNum ELSE Parsed(cell)
                /\ cell = String(0) => item[d.field] = Num(0)
                /\ cell = String(12) => item[d.field] = Num(12)
                /\ cell \in {Txt.abc, Txt.Y} => item[d.field] = NaN

\* C16 witness: a warehouse row with running '0' and no cell for queued was
\* mapped to running = 0 and queued undefined.
C16_Witness ==
  \E c \in DOMAIN pc :
    /\ Returned(c) /\ call[c].op = "listWarehouses"
    /\ Carried(c).resultSetMetaData.rowType =
         <<Column(Key.rows), Column(Key.running), Column(Key.comment)>>
    /\ Carried(c).data = << <<String(12), String(0)>> >>
    /\ outcome[c].value.items[1].running = Num(0)
    /\ outcome[c].value.items[1].queued = undefinedNum

\* A further partition exists for a result fetched at partition 0: its
\* partitionInfo lists more than one partition.
FurtherPartition(c) ==
  /\ Carried(c).resultSetMetaData # undefinedMeta
  /\ Carried(c).resultSetMetaData.partitionInfo # undefinedPartitionInfo
  /\ Len(Carried(c).resultSetMetaData.partitionInfo.value) > 1

\* C17 as stated: in every PaginatedResponse the adapter returns, hasMore is
\* true if and only if a further partition exists according to the result's
\* partitionInfo.
C17_HasMoreIffFurtherPartition ==
  \A c \in DOMAIN pc :
    Returned(c) /\ IsListOp(c) => (outcome[c].value.hasMore <=> FurtherPartition(c))

\* C18: every PaginatedResponse of a list or describe operation has
\* count = items.length, and items holds one entity per data row of the
\* result, in row order (none for a result without data or without metadata,
\* which C20 makes the empty page): the i-th entity is the one mapped from
\* the i-th row.
C18_CountAndRowOrder ==
  \A c \in DOMAIN pc :
    Returned(c) /\ IsListOp(c) =>
      LET page == outcome[c].value
      IN /\ page.count = Len(page.items)
         /\ Len(page.items) = IF HasRows(c) THEN Len(Carried(c).data) ELSE 0
         /\ HasRows(c) =>
              \A i \in 1..Len(page.items) :
                LET rowType == Carried(c).resultSetMetaData.rowType
                    d == Field("name", Key.name, "name", <<>>)
                IN page.items[i].name =
                     ValueOf(d, CellAt(Carried(c).data[i],
                                       ReadIndex(call[c].op, rowType, d)))

\* C18 witness: a listing of two different rows, reported as five rows in
\* all, came back as two entities in the order of the rows.
C18_Witness ==
  \E c \in DOMAIN pc :
    /\ Returned(c) /\ IsListOp(c)
    /\ HasRows(c)
    /\ Carried(c).resultSetMetaData.numRows = 5
    /\ Carried(c).resultSetMetaData.rowType = <<Column(Key.name), Column(Key.state)>>
    /\ Carried(c).data = << <<Txt.WH_L, Txt.STARTED>>, <<Txt.WH_XS, Txt.SUSPENDED>> >>
    /\ outcome[c].value.count = 2
    /\ outcome[c].value.items[1].name = Txt.WH_L
    /\ outcome[c].value.items[2].name = Txt.WH_XS

C20_EmptyPageWithoutRows ==
  \A c \in DOMAIN pc :
    Done(c) /\ IsListOp(c) /\ settled[c].kind = "response" /\ ResponseOk(settled[c])
      /\ settled[c].body.json /\ ~HasRows(c) =>
        outcome[c] = Return([items |-> <<>>, count |-> 0, hasMore |-> FALSE])

\* C20 witness: a describe whose result carried rows but no metadata came
\* back as the empty page.
C20_Witness ==
  \E c \in DOMAIN pc :
    /\ Returned(c) /\ call[c].op = "describeTable"
    /\ Carried(c).resultSetMetaData = undefinedMeta
    /\ Carried(c).data # undefinedData /\ Len(Carried(c).data) = 2
    /\ outcome[c].value.count = 0
    /\ outcome[c].value.items = <<>>

\* The values of the type StatementStatus.
StatementStatus ==
  { "running", "resuming_warehouse", "queued", "blocked", "success",
    "failed_with_error", "failed_with_incident", "aborted" }

\* C21: mapStatus is total.  For every combination of an absent, empty or
\* given status URL and an absent, empty or arbitrary message, the status of
\* the returned statement record is one of the values of StatementStatus and
\* never undefined.
C21_MapStatusTotal ==
  \A c \in DOMAIN pc :
    Returned(c) /\ IsStatementOp(c) =>
      /\ outcome[c].value.status \in StatementStatus
      /\ outcome[c].value.status # undefined

\* C21 witness: a response with neither a status URL nor one of the words
\* the mapping looks for ("Queued") has left every test of mapStatus and
\* been given a status by its final return.
C21_Witness ==
  \E c \in DOMAIN pc :
    /\ Returned(c)
    /\ IsStatementOp(c)
    /\ settled[c].body.value.statementStatusUrl = undefined
    /\ settled[c].body.value.message = Txt.Queued
    /\ outcome[c].value.status = "success"

\* ------------------------------------------------- polling a statement
\* The remote answers a request about statement h1 from the state the
\* statement is in: a status poll of a running statement gets 202 with the
\* status URL, of a completed one its result, of a cancelled one a statement
\* error; a cancel is accepted.  Any request may also be rate limited.
RemoteStatus(f) ==
  LET h == f.url.endpoint[2]
  IN IF IsCancel(f)
     THEN Response(200, undefinedText,
                   JsonBody([EmptyObject EXCEPT !.statementHandle = h,
                                                !.message = Txt.Cancelled]))
     ELSE CASE remote[h] = "running" ->
                 Response(202, undefinedText,
                          JsonBody([ EmptyObject EXCEPT
                                       !.statementHandle = h,
                                       !.statementStatusUrl = "/api/v2/statements/h1",
                                       !.message = Txt.InProgress ]))
            [] remote[h] = "completed" -> Ok200
            [] OTHER -> Response(422, undefinedText, JsonBody(ErrorBody))

\* Callers poll and cancel the statement.
NextPoll ==
  \E c \in Calls :
    \/ fetch(c, {McpPost(HeadersA)})
    \/ getStatementStatus(c, Handles)
    \/ cancelStatement(c, Handles)
    \/ settle(c, { RemoteStatus(Pendingfetch(c)), Response(429, String(30), NotJson) })
    \/ resume(c)

\* The statement starts running or completed.
SpecPoll ==
  /\ \E state \in {"running", "completed"} : InitWith(Calls, [h \in Handles |-> state])
  /\ [][NextPoll]_vars

IsPoll(c) == call[c].op = "getStatementStatus"

\* C22: getStatementStatus is read-only and idempotent.  Every step of a
\* getStatementStatus call (issuing its request, the request settling, the
\* call returning) leaves the remote statements as they were, and the one
\* request it issues is a GET of /statements/<handle> without body or query;
\* and as long as the remote statement has not changed (no statement has been
\* cancelled since the start), all getStatementStatus calls that returned
\* have returned the same StatementResult.
C22_StatusPollReadOnlyIdempotent ==
  [][ /\ \A c \in DOMAIN pc :
           pc'[c] # pc[c] /\ call'[c].op = "getStatementStatus" =>
             /\ remote' = remote
             /\ Len(fetched'[c]) = 1
             /\ fetched'[c][1].method = "GET"
             /\ fetched'[c][1].body = NoBody
             /\ fetched'[c][1].url.endpoint = <<"/statements/", call'[c].statementHandle>>
             /\ fetched'[c][1].url.query = <<>>
      /\ (\A h \in Handles : remote'[h] # "cancelled") =>
           \A c, d \in DOMAIN pc :
             /\ pc'[c] = "done" /\ outcome'[c].kind = "return"
             /\ pc'[d] = "done" /\ outcome'[d].kind = "return"
             /\ call'[c].op = "getStatementStatus" /\ call'[d].op = "getStatementStatus"
             /\ call'[c].statementHandle = call'[d].statementHandle
             => outcome'[c] = outcome'[d] ]_vars

\* C22 witness: two polls of the running statement have both returned, with
\* the same record, and the statement is still running.
C22_Witness ==
  \E c, d \in DOMAIN pc :
    /\ c # d
    /\ Returned(c) /\ IsPoll(c)
    /\ Returned(d) /\ IsPoll(d)
    /\ outcome[c].value.status = "running"
    /\ outcome[c] = outcome[d]
    /\ remote["h1"] = "running"

\* ------------------------------------------------------ statement timeout
\* Statements are submitted with the timeout left unspecified or with one the
\* snowflake_execute and snowflake_execute_async argument schemas admit
\* (an integer of at least 1).
NextTimeout ==
  LET Requests ==
        { [PlainRequest EXCEPT !.timeout = t] :
            t \in {undefinedNum, Num(1), Num(30), Num(3600)} }
      Answers == { Ok200, Response(408, undefinedText, NotJson) }
  IN \E c \in Calls :
       \/ fetch(c, {McpPost(HeadersA)})
       \/ executeStatement(c, Requests)
       \/ executeStatementAsync(c, Requests)
       \/ settle(c, Answers)
       \/ resume(c)

SpecTimeout == Init /\ [][NextTimeout]_vars

NextRecord ==
  LET Envelopes ==
        { [EmptyObject EXCEPT !.statementHandle = "h1"],
          [EmptyObject EXCEPT !.statementHandle = "0042",
                              !.statementStatusUrl = "/api/v2/statements/0042",
                              !.stats = [numRowsScanned |-> 7, elapsedTimeMs |-> 12]],
          [EmptyObject EXCEPT !.statementHandle = "h1", !.sqlState = "00000",
                              !.code = "090001", !.stats = [numRowsInserted |-> 0]] }
      Messages == { undefinedText, <<>>, Txt.ExecutedSuccessfully, Txt.QueryFailed }
      Data ==
        { undefinedData, <<>>, << <<String(12), Txt.true>> >>,
          << <<Txt.abc>>, <<nullText, <<>>, <<"0">> \o String(7)>> >> }
      Answers ==
        { Response(200, undefinedText, JsonBody([e EXCEPT !.message = m, !.data = d])) :
            e \in Envelopes, m \in Messages, d \in Data }
  IN \E c \in OneCall :
       \/ fetch(c, {McpPost(HeadersA)})
       \/ executeStatement(c, {PlainRequest})
       \/ executeStatementAsync(c, {PlainRequest})
       \/ getStatementStatus(c, {"h1", "0042"})
       \/ getStatementResult(c, {"h1", "0042"}, {undefinedNum})
       \/ settle(c, Answers)
       \/ resume(c)

SpecRecord == InitOne /\ [][NextRecord]_vars

\* C24: normalizing a warehouse response into a StatementResult leaves
\* statementHandle, message, data, stats, statementStatusUrl, sqlState and
\* code as received: the record carries the raw message, the handle is the
\* text received, and every row and every cell of data is the raw text (or
\* null) received, with no numeric or boolean interpretation.
C24_RecordFieldsUnchanged ==
  \A c \in DOMAIN pc :
    Returned(c) /\ IsStatementOp(c) =>
      LET received == settled[c].body.value
          result == outcome[c].value
      IN /\ result.statementHandle = received.statementHandle
         /\ result.message = received.message
         /\ result.data = received.data
         /\ result.stats = received.stats
         /\ result.statementStatusUrl = received.statementStatusUrl
         /\ result.sqlState = received.sqlState
         /\ result.code = received.code

\* C24 witness: a response whose handle reads like a number and whose row
\* holds the cells "12" and "true" has been normalized, and the record holds
\* the handle "0042", the message and the two cells as texts.
C24_Witness ==
  \E c \in DOMAIN pc :
    /\ Returned(c) /\ call[c].op = "getStatementResult"
    /\ settled[c].body.value.statementHandle = "0042"
    /\ settled[c].body.value.message = Txt.QueryFailed
    /\ outcome[c].value.statementHandle = "0042"
    /\ outcome[c].value.message = Txt.QueryFailed
    /\ outcome[c].value.data = << <<String(12), Txt.true>> >>
    /\ outcome[c].value.stats = [numRowsScanned |-> 7, elapsedTimeMs |-> 12]

\* ----------------------------------------------- reordered columns (two calls)
\* Permutations of 1..n: none, the reversal, the rotation by one, and the
\* exchange of the first two.
Perms(n) ==
  { [i \in 1..n |-> i], [i \in 1..n |-> n + 1 - i], [i \in 1..n |-> (i % n) + 1],
    [i \in 1..n |-> IF i = 1 /\ n > 1 THEN 2 ELSE IF i = 2 THEN 1 ELSE i] }
\* A result with its rowType and the cells of every row reordered by `p`.
Reordered(result, p) ==
  LET Permute(s) == [i \in 1..Len(s) |-> s[p[i]]]
  IN [ result EXCEPT
       !.resultSetMetaData.rowType = Permute(@),
       !.data = [r \in 1..Len(@) |-> Permute(@[r])] ]

\* Two list commands are answered, each with a reordering of one of three
\* results of two rows: one with a column for every name the command looks
\* up; that one with a further column NAME, with its own cells, after them;
\* and one with the columns state and name only.
NextReorder ==
  LET Names(op) ==
        CASE op = "listDatabases" ->
               << Key.name, Key.created_on, Key.origin, Key.owner,
                  Key.comment, Key.options, Key.retention_time,
                  Key.resource_group, Key.kind >>
          [] op = "listSchemas" ->
               << Key.name, Key.created_on, Key.owner, Key.comment,
                  Key.options, Key.retention_time >>
          [] op = "listTables" ->
               << Key.name, Key.kind, Key.created_on, Key.owner,
                  Key.comment, Key.cluster_by, Key.rows, Key.bytes,
                  Key.retention_time, Key.automatic_clustering,
                  Key.change_tracking, Key.is_external >>
          [] op = "listViews" ->
               << Key.name, Key.created_on, Key.owner, Key.comment,
                  Key.text, Key.is_secure, Key.is_materialized >>
          [] op = "describeTable" ->
               << Key.name, Key.type, Key.kind, Key.null, Key.default,
                  Key.primary_key, Key.unique_key, Key.check,
                  Key.expression, Key.comment, Key.policy_name >>
          [] op = "listWarehouses" ->
               << Key.name, Key.state, Key.type, Key.size,
                  Key.min_cluster_count, Key.max_cluster_count,
                  Key.started_clusters, Key.running, Key.queued,
                  Key.is_default, Key.is_current, Key.auto_suspend,
                  Key.auto_resume, Key.available, Key.provisioning,
                  Key.quiescing, Key.other, Key.created_on,
                  Key.resumed_on, Key.updated_on, Key.owner,
                  Key.comment, Key.resource_monitor,
                  Key.scaling_policy >>
      Wide(names) ==
        [ EmptyObject EXCEPT
            !.statementHandle = "h1", !.message = Txt.ExecutedSuccessfully,
            !.resultSetMetaData =
              MetaData(2, undefinedPartitionInfo, [i \in 1..Len(names) |-> Column(names[i])]),
            !.data =
              << [i \in 1..Len(names) |-> String(i)],
                 [i \in 1..Len(names) |->
                    IF i % 3 = 0 THEN Txt.y ELSE IF i % 3 = 1 THEN Txt.true ELSE Txt.WH_L] >> ]
      Bases(op) ==
        { Wide(Names(op)), Wide(Names(op) \o <<Txt.NAME>>), Wide(<<Key.state, Key.name>>) }
      Answers(c) ==
        UNION { { Response(200, undefinedText, JsonBody(Reordered(b, p))) :
                    p \in Perms(Len(b.resultSetMetaData.rowType)) } :
                b \in Bases(call[c].op) }
  IN \E c \in {1, 2} :
       \/ fetch(c, {McpPost(HeadersA)})
       \/ listDatabases(c)
       \/ listSchemas(c, {"DB1"})
       \/ listTables(c, {"DB1"}, {"PUBLIC"})
       \/ listViews(c, {"DB1"}, {"PUBLIC"})
       \/ describeTable(c, {"DB1"}, {"PUBLIC"}, {"T1"})
       \/ listWarehouses(c)
       \/ settle(c, Answers(c))
       \/ resume(c)

SpecReorder == InitWith({1, 2}, [h \in Handles |-> "completed"]) /\ [][NextReorder]_vars

\* The rowType has a column (in any case) for every name the operation looks up.
HasLookedUpColumns(op, rowType) ==
  \A f \in FieldsOf(op) :
    \E i \in 1..Len(rowType) : toLowerCase(rowType[i].name) = f.key
\* No two columns of the rowType have the same name, case aside.
DistinctColumns(rowType) ==
  \A i, j \in 1..Len(rowType) :
    i # j => toLowerCase(rowType[i].name) # toLowerCase(rowType[j].name)
\* Calls c and d ran the same list command and both returned.
SameCommand(c, d) == Returned(c) /\ Returned(d) /\ IsListOp(c) /\ call[c] = call[d]
\* Call d was answered with the result of c reordered, rowType and every row
\* alike, by one permutation.
IsReordering(c, d) ==
  \E p \in Perms(Len(Carried(c).resultSetMetaData.rowType)) :
    Carried(d) = Reordered(Carried(c), p)

\* C25 as stated: for every list-command result whose rowType contains the
\* looked-up column names, applying one and the same permutation to rowType
\* and to the cells of every data row yields exactly the same mapped
\* entities: two calls of one command have mapped the same entities, unless
\* the rowType lacks a looked-up name or the one result is no reordering of
\* the other.
C25_ReorderingKeepsEntities ==
  \A c, d \in DOMAIN pc :
    SameCommand(c, d) =>
      \/ outcome[c].value = outcome[d].value
      \/ ~HasLookedUpColumns(call[c].op, Carried(c).resultSetMetaData.rowType)
      \/ ~IsReordering(c, d)

\* C25 amended: the same for every such result no two of whose columns share
\* a name (case aside); of two columns with one name the later is read, and
\* a permutation may change which one that is.
C25_ReorderingKeepsEntitiesOfDistinctColumns ==
  \A c, d \in DOMAIN pc :
    SameCommand(c, d) =>
      \/ outcome[c].value = outcome[d].value
      \/ ~HasLookedUpColumns(call[c].op, Carried(c).resultSetMetaData.rowType)
      \/ ~DistinctColumns(Carried(c).resultSetMetaData.rowType)
      \/ ~IsReordering(c, d)

\* C25 witness: SHOW WAREHOUSES was answered once with the columns in the
\* order name, created_on, ... and once with columns and cells reversed, and
\* both calls mapped the same two warehouses, the first named "1".
C25_Witness ==
  \E c, d \in DOMAIN pc :
    /\ c # d
    /\ SameCommand(c, d) /\ IsReordering(c, d)
    /\ call[c].op = "listWarehouses"
    /\ DistinctColumns(Carried(c).resultSetMetaData.rowType)
    /\ HasLookedUpColumns("listWarehouses", Carried(c).resultSetMetaData.rowType)
    /\ Carried(c).resultSetMetaData.rowType[1].name = Key.name
    /\ Carried(d).resultSetMetaData.rowType[1].name = Key.scaling_policy
    /\ Len(outcome[d].value.items) = 2
    /\ outcome[d].value.items[1].name = String(1)
    /\ outcome[c].value = outcome[d].value

\* C26: an inbound POST /mcp call whose account or token header is missing
\* or empty is answered with HTTP 401, and for such a call no client is
\* constructed, no operation runs and no outbound warehouse request is issued,
\* in any later state either; /health is answered (200) whatever headers the
\* call carries, none included.
C26_UnauthorizedIssuesNothing ==
  \A c \in DOMAIN pc :
    pc[c] # "idle" =>
      LET h == inbound[c].headers
          Missing(v) == v = null \/ v = ""
      IN /\ inbound[c].path = "/mcp" /\ inbound[c].method = "POST"
            /\ (Missing(h.account) \/ Missing(h.token)) =>
              /\ pc[c] = "replied"
              /\ reply[c].status = 401
              /\ client[c] = NoClient
              /\ call[c] = NoCall
              /\ fetched[c] = <<>>
         /\ inbound[c].path = "/health" =>
              /\ pc[c] = "replied"
              /\ reply[c].status = 200
              /\ fetched[c] = <<>>

\* C26 witness: a POST /mcp call with an account but no token has been
\* answered 401 with nothing issued, a health probe without any header has
\* been answered 200.
C26_Witness ==
  \E c, d \in DOMAIN pc :
    /\ inbound[c].path = "/mcp" /\ inbound[c].method = "POST"
    /\ inbound[c].headers.account = "acctA"
    /\ inbound[c].headers.token = null
    /\ pc[c] = "replied" /\ reply[c].status = 401
    /\ client[c] = NoClient /\ fetched[c] = <<>>
    /\ inbound[d].path = "/health" /\ inbound[d].headers = NoHeaders
    /\ pc[d] = "replied" /\ reply[d].status = 200

\* C28: for every response whose status is outside 200..299, the statusCode
\* carried by the error the operation raised equals the HTTP status code of
\* that response.
C28_StatusCodeIsHttpStatus ==
  \A c \in DOMAIN pc :
    Threw(c) /\ settled[c].kind = "response" /\ ~ResponseOk(settled[c]) =>
      outcome[c].error.statusCode = settled[c].status

\* --------------------------------------------------- every tool (one call)
\* The account has the warehouses WH_L and WH_XS.  SHOW WAREHOUSES LIKE
\* '<pattern>' is answered with those whose name matches the pattern, which
\* the warehouse compares without regard to case and in which % stands for
\* any text; every other statement or request with one of: a completed
\* result of one row, a result of the row (user, account, role), a completed
\* statement without data, no row, a statement still running.  Any request
\* may instead fail: 429, 401, 403, 408, 422, 500, a 200 without JSON body,
\* or the network.
NextTools ==
  LET Matches(name, pattern) ==
        pattern = <<"%">> \/ toLowerCase(name) = toLowerCase(pattern)
      Listed(pattern) ==
        SelectSeq(<< <<Txt.WH_L, Txt.STARTED>>, <<Txt.WH_XS, Txt.SUSPENDED>> >>,
                  LAMBDA row : Matches(row[1], pattern))
      ShowLike(pattern) ==
        ResultResponse(MetaData(Len(Listed(pattern)), undefinedPartitionInfo,
                                <<Column(Key.name), Column(Key.state)>>),
                       Listed(pattern))
      Results ==
        { Ok200,
          Response(200, undefinedText,
                   JsonBody([CompletedBody EXCEPT
                               !.statementStatusUrl = undefined,
                               !.data = << <<Txt.Name, Txt.abc, Txt.NAME>> >>])),
          Response(200, undefinedText,
                   JsonBody([EmptyObject EXCEPT !.statementHandle = "h1"])),
          Response(200, undefinedText, JsonBody([CompletedBody EXCEPT !.data = <<>>])),
          Response(202, undefinedText,
                   JsonBody([CompletedBody EXCEPT !.message = Txt.InProgress])) }
      Failures ==
        { Response(st, undefinedText, b) :
            st \in {429, 401, 403, 408, 422, 500}, b \in {NotJson, JsonBody(ErrorBody)} }
          \cup { Response(200, undefinedText, NotJson), Rejected }
      Answers(c) ==
        Failures \cup
          (IF call[c].op = "getWarehouseStatus" THEN {ShowLike(call[c].warehouseName)}
           ELSE Results)
      \* The warehouse names asked for: WH_XS, wh_xs, % and abc.
      Warehouses == { Txt.WH_XS, toLowerCase(Txt.WH_XS), <<"%">>, Txt.abc }
  IN \E c \in OneCall :
       \/ fetch(c, {McpPost(HeadersA)})
       \/ testConnection(c)
       \/ executeStatement(c, {PlainRequest})
       \/ executeStatementAsync(c, {PlainRequest})
       \/ getStatementStatus(c, Handles)
       \/ getStatementResult(c, Handles, {undefinedNum})
       \/ cancelStatement(c, Handles)
       \/ listDatabases(c)
       \/ listSchemas(c, {"DB1"})
       \/ listTables(c, {"DB1"}, {"PUBLIC"})
       \/ listViews(c, {"DB1"}, {"PUBLIC"})
       \/ describeTable(c, {"DB1"}, {"PUBLIC"}, {"T1"})
       \/ listWarehouses(c)
       \/ getWarehouseStatus(c, Warehouses)
       \/ resumeWarehouse(c, Warehouses)
       \/ suspendWarehouse(c, Warehouses)
       \/ settle(c, Answers(c))
       \/ resume(c)

SpecTools == InitOne /\ [][NextTools]_vars

C29_ReturnedNameIsRequested ==
  \A c \in DOMAIN pc :
    Returned(c) /\ call[c].op = "getWarehouseStatus" =>
      outcome[c].value.name = call[c].warehouseName

\* The request of call c failed: the network, a status outside 200..299, or
\* a body that is no JSON.
RequestFailed(c) ==
  settled[c].kind = "rejected" \/ ~ResponseOk(settled[c]) \/ ~settled[c].body.json

\* C30: testConnection never raises.  Any failure of the underlying statement
\* execution is returned as {connected: false} together with the tenant's own
\* account (and the error's message), and connected is true only if the
\* statement's status is 'success' and at least one data row was returned.
C30_TestConnectionNeverRaises ==
  \A c \in DOMAIN pc :
    Done(c) /\ call[c].op = "testConnection" =>
      /\ outcome[c].kind = "return"
      /\ RequestFailed(c) =>
           /\ outcome[c].value.connected = FALSE
           /\ outcome[c].value.account = client[c].credentials.account
           /\ outcome[c].value.message = requestResult(settled[c]).error.message
      /\ outcome[c].value.connected =>
           /\ ~RequestFailed(c)
           /\ mapStatus(Carried(c).statementStatusUrl, Carried(c).message) = "success"
           /\ Carried(c).data # undefinedData
           /\ Len(Carried(c).data) >= 1

\* C30 witness: the statement of a connection test was refused with 401, and
\* testConnection returned {connected: false} with the account of the call's
\* own headers.
C30_Witness ==
  \E c \in DOMAIN pc :
    /\ Returned(c) /\ call[c].op = "testConnection"
    /\ settled[c].kind = "response" /\ settled[c].status = 401
    /\ outcome[c].value.connected = FALSE
    /\ outcome[c].value.account = "acctA"
    /\ inbound[c].headers.account = "acctA"
====
